---- MODULE Spec2Model ----
(***************************************************************************)
(* A model of the AX dashboard backend (naxa-dev/brother_in_law):          *)
(* the SQLite entity store (app/db.py), the snapshot importer              *)
(* (app/services/snapshot_importer.py), the CRUD editors                   *)
(* (app/routers/crud_projects.py, crud_events.py), the audit recorder     *)
(* (app/services/audit.py) and the metrics engine                          *)
(* (app/services/metrics.py).                                              *)
(*                                                                         *)
(* Text is modelled as a tuple of characters, so that str.strip(), the     *)
(* regular expressions and str() are computed and not assumed.  The        *)
(* Hangul literals of the source are written with one romanised token per  *)
(* syllable ("je","an" for the two syllables of the default status),       *)
(* because the module text is ASCII.                                       *)
(*                                                                         *)
(* A nullable column holds <<>> for NULL and <<v>> for the value v.        *)
(***************************************************************************)
EXTENDS Integers, Sequences, FiniteSets, TLC

VARIABLES
    db,      \* the committed database: what every other connection reads
    tx,      \* the importing connection's view: db plus its uncommitted writes
    imp,     \* the frame of the import_snapshot call in progress
    ed,      \* the frame of the CRUD edit request in progress
    ret,     \* how the last import_snapshot call ended, and its SnapshotReport
    seen,    \* what a reader on another connection last read of the import's snapshot
    hist,    \* history: what the calls so far were given, and how many
    other    \* the request of the second connection, which waits for its thread to run

vars == <<db, tx, imp, ed, ret, seen, hist, other>>

---------------------------------------------------------------------------
(* Bounds of the exploration.                                              *)

\* non-empty master data rows read, over all imports of a run
MaxMasterRows == 2
\* non-empty month-sheet data rows read, over all imports of a run
MaxEventRows == 2
\* sheets other than AX_Master visited, over all imports of a run
MaxSheets == 2
\* CRUD edit requests of a run
MaxEdits == 2
\* distinct values of the wall clock (datetime.utcnow) a run observes
MaxTime == 1

---------------------------------------------------------------------------
(* Text, cells and nullable values.                                        *)

Range(s) == {s[i] : i \in DOMAIN s}

NULL == <<>>
Some(v) == <<v>>

\* str.isspace() of one character, over the characters the model uses
IsSpace(ch) == ch \in {" ", "\t", "\n"}

\* \d of the re module, over the characters the model uses
IsDigit(ch) == ch \in {"0", "1", "2", "3", "4", "5", "6", "7", "8", "9"}

RECURSIVE LStrip(_)
LStrip(s) == IF s # <<>> /\ IsSpace(Head(s)) THEN LStrip(Tail(s)) ELSE s

RECURSIVE RStrip(_)
RStrip(s) ==
    IF s # <<>> /\ IsSpace(s[Len(s)]) THEN RStrip(SubSeq(s, 1, Len(s) - 1)) ELSE s

\* str.strip()
Strip(s) == RStrip(LStrip(s))

\* A worksheet cell value as openpyxl returns it: None, a str or an int.
NoneCell == [k |-> "none", s |-> <<>>, n |-> 0]
StrCell(s) == [k |-> "str", s |-> s, n |-> 0]
IntCell(n) == [k |-> "int", s |-> <<>>, n |-> n]

\* Python truthiness of a cell value: None, "" and 0 are false
Truthy(c) ==
    CASE c.k = "none" -> FALSE
      [] c.k = "str" -> c.s # <<>>
      [] c.k = "int" -> c.n # 0

Digits == <<"0", "1", "2", "3", "4", "5", "6", "7", "8", "9">>

RECURSIVE NatStr(_)
NatStr(n) == IF n < 10 THEN <<Digits[n + 1]>> ELSE NatStr(n \div 10) \o <<Digits[(n % 10) + 1]>>

\* str(value) of a cell value
Str(c) ==
    CASE c.k = "none" -> <<"N", "o", "n", "e">>
      [] c.k = "str" -> c.s
      [] c.k = "int" -> IF c.n < 0 THEN <<"-">> \o NatStr(0 - c.n) ELSE NatStr(c.n)

\* str(x) if x else None
StrOrNull(c) == IF Truthy(c) THEN Some(Str(c)) ELSE NULL

\* the name a champion or strategy cell stands for: none when the cell is
\* false, or when nothing is left of str(cell) after strip()
NameOf(c) == IF Truthy(c) /\ Strip(Str(c)) # <<>> THEN {Strip(Str(c))} ELSE {}

---------------------------------------------------------------------------
(* Literals of the source.                                                 *)

\* the status written for a blank status cell (two syllables)
DEFAULT_STATUS == <<"je", "an">>
\* the "active" status literal of the metrics (seven characters)
ACTIVE_STATUS == <<"seung", "in", "(", "jin", "haeng", "jung", ")">>

\* the label the metrics give to rows without champion or strategy (five
\* characters)
UNASSIGNED == <<"(", "mi", "hal", "dang", ")">>

AX_MASTER == <<"A", "X", "_", "M", "a", "s", "t", "e", "r">>

\* header label -> internal field name, AX_Master
expected_master_cols ==
    [h \in {"GwajeID", "GwajeMyeong", "Champion", "JeonryakBunryu", "Suhaeng Buseo",
            "SimuiSangtae", "JeanWol", "SeunginWol"} |->
        CASE h = "GwajeID" -> "project_id"
          [] h = "GwajeMyeong" -> "project_name"
          [] h = "Champion" -> "champion"
          [] h = "JeonryakBunryu" -> "strategy"
          [] h = "Suhaeng Buseo" -> "org_unit"
          [] h = "SimuiSangtae" -> "status"
          [] h = "JeanWol" -> "proposed_month"
          [] h = "SeunginWol" -> "approved_month"]

\* header label -> internal field name, month sheets
expected_event_cols ==
    [h \in {"GwajeID", "Champion", "SingyuJeanYeobu", "SeunginYeobu", "Bigo"} |->
        CASE h = "GwajeID" -> "project_id"
          [] h = "Champion" -> "champion"
          [] h = "SingyuJeanYeobu" -> "is_new_proposal"
          [] h = "SeunginYeobu" -> "is_approved"
          [] h = "Bigo" -> "note"]

\* ^(\d{4})-(\d{2})-(\d{2})\.xlsx$ ; $ also matches before one trailing newline
FilenameMatch(f) ==
    LET g == IF Len(f) = 16 /\ f[16] = "\n" THEN SubSeq(f, 1, 15) ELSE f
    IN  /\ Len(g) = 15
        /\ \A i \in {1, 2, 3, 4, 6, 7, 9, 10} : IsDigit(g[i])
        /\ g[5] = "-" /\ g[8] = "-"
        /\ SubSeq(g, 11, 15) = <<".", "x", "l", "s", "x">>

\* f"{year}-{month}-{day}" of the match groups
SnapshotDate(f) == SubSeq(f, 1, 4) \o <<"-">> \o SubSeq(f, 6, 7) \o <<"-">> \o SubSeq(f, 9, 10)

\* MONTH_SHEET_PATTERN.match: ^\d{4}-\d{2}$
MonthSheetMatch(n) ==
    LET g == IF Len(n) = 8 /\ n[8] = "\n" THEN SubSeq(n, 1, 7) ELSE n
    IN  /\ Len(g) = 7
        /\ \A i \in {1, 2, 3, 4, 6, 7} : IsDigit(g[i])
        /\ g[5] = "-"

\* the header index built from a header row: internal field -> column
HeaderIndex(headers, expected) ==
    LET cols(f) == {i \in DOMAIN headers :
                      headers[i] \in DOMAIN expected /\ expected[headers[i]] = f}
        fields == {expected[h] : h \in Range(headers) \cap DOMAIN expected}
    IN  [f \in fields |-> CHOOSE i \in cols(f) : \A j \in cols(f) : j <= i]

\* the expected fields a header row does not provide
MissingCols(headers, expected) ==
    {f \in {expected[h] : h \in DOMAIN expected} :
        f \notin DOMAIN HeaderIndex(headers, expected)}

---------------------------------------------------------------------------
(* The entity store: the six tables of init_db.  snapshots, champions,     *)
(* strategy_categories and audit_logs have an INTEGER PRIMARY KEY          *)
(* AUTOINCREMENT: a row's id is its position, and as no statement of the   *)
(* program deletes a row, the next id is always the row count plus one     *)
(* (the sqlite_sequence counter is restored by a rollback like any row).   *)

EmptyStore ==
    [snapshots |-> <<>>,
     champions |-> <<>>,
     strategy_categories |-> <<>>,
     projects |-> {},
     project_monthly_events |-> {},
     audit_logs |-> <<>>]

\* the same for a reader that sees uncommitted writes
DirtyVisible == tx

\* what a connection other than the writer reads: sqlite3 keeps a
\* transaction's writes private to its connection until commit
Visible == db

\* SELECT snapshot_id FROM snapshots WHERE snapshot_date = ?
SnapshotIdsByDate(st, d) == {i \in DOMAIN st.snapshots : st.snapshots[i].snapshot_date = d}

\* INSERT INTO snapshots (snapshot_date, uploaded_at, source_filename)
InsertSnapshot(st, d, t, f) ==
    [st EXCEPT !.snapshots =
        Append(@, [snapshot_date |-> d, uploaded_at |-> t, source_filename |-> f])]

\* the same without name = name.strip()
GetOrCreateByNameUntrimmed(rows, name) ==
    LET hit == {i \in DOMAIN rows : rows[i].name = name}
    IN  IF name = <<>> \/ Strip(name) = <<>> THEN [rows |-> rows, id |-> NULL]
        ELSE IF hit # {} THEN [rows |-> rows, id |-> Some(CHOOSE i \in hit : TRUE)]
        ELSE [rows |-> Append(rows, [name |-> name, is_active |-> 1]),
              id |-> Some(Len(rows) + 1)]

\* the select-else-insert by trimmed name shared by get_champion_id and
\* get_strategy_id: the table after the call and the id returned
GetOrCreateByName(rows, name) ==
    IF name = <<>> THEN [rows |-> rows, id |-> NULL]
    ELSE LET n == Strip(name)
             hit == {i \in DOMAIN rows : rows[i].name = n}
         IN  IF n = <<>> THEN [rows |-> rows, id |-> NULL]
             ELSE IF hit # {} THEN [rows |-> rows, id |-> Some(CHOOSE i \in hit : TRUE)]
             ELSE [rows |-> Append(rows, [name |-> n, is_active |-> 1]),
                   id |-> Some(Len(rows) + 1)]

get_champion_id(st, name) ==
    LET r == GetOrCreateByName(st.champions, name)
    IN  [st |-> [st EXCEPT !.champions = r.rows], id |-> r.id]

get_strategy_id(st, name) ==
    LET r == GetOrCreateByName(st.strategy_categories, name)
    IN  [st |-> [st EXCEPT !.strategy_categories = r.rows], id |-> r.id]

\* SELECT ... FROM projects WHERE snapshot_id = ? AND project_id = ?
ProjectRows(st, sid, pid) ==
    {p \in st.projects : p.snapshot_id = sid /\ p.project_id = pid}

\* the same for a key without month_key
EventRowsAnyMonth(st, sid, m, pid) ==
    {e \in st.project_monthly_events : e.snapshot_id = sid /\ e.project_id = pid}

\* SELECT ... FROM project_monthly_events WHERE snapshot_id = ? AND month_key = ?
\* AND project_id = ?
EventRows(st, sid, m, pid) ==
    {e \in st.project_monthly_events :
        e.snapshot_id = sid /\ e.month_key = m /\ e.project_id = pid}

\* the same without the snapshot_id = ? of the WHERE clause
ProjectExistsAnywhere(st, sid, pid) == \E p \in st.projects : p.project_id = pid

\* SELECT 1 FROM projects WHERE snapshot_id = ? AND project_id = ? finds a row
ProjectExists(st, sid, pid) == ProjectRows(st, sid, pid) # {}

\* the same with the default for a None cell only
StatusOfNotNone(c) == IF c.k # "none" THEN Str(c) ELSE DEFAULT_STATUS

\* str(value or DEFAULT) of the status cell
StatusOf(c) == IF Truthy(c) THEN Str(c) ELSE DEFAULT_STATUS

\* the project row import_snapshot writes for a master row, and the store
\* after the champion and the strategy were resolved
MasterRowProject(st, sid, row) ==
    LET c == IF Truthy(row.champion) THEN get_champion_id(st, Str(row.champion))
             ELSE [st |-> st, id |-> NULL]
        s == IF Truthy(row.strategy) THEN get_strategy_id(c.st, Str(row.strategy))
             ELSE [st |-> c.st, id |-> NULL]
    IN  [st |-> s.st,
         row |-> [snapshot_id |-> sid,
                  project_id |-> Str(row.project_id),
                  project_name |-> IF Truthy(row.project_name) THEN Str(row.project_name) ELSE <<>>,
                  champion_id |-> c.id,
                  strategy_id |-> s.id,
                  org_unit |-> StrOrNull(row.org_unit),
                  current_status |-> StatusOf(row.status),
                  proposed_month |-> StrOrNull(row.proposed_month),
                  approved_month |-> StrOrNull(row.approved_month)]]

\* the same without the strip()
FlagOfUntrimmed(c) == IF c.k # "none" /\ Str(c) # <<"0">> THEN 1 ELSE 0

\* is_new = 0; if val is not None and str(val).strip() != "0": is_new = 1
FlagOf(c) == IF c.k # "none" /\ Strip(Str(c)) # <<"0">> THEN 1 ELSE 0

\* the same, falling back to the project's champion for a cell without value
\* only
EventRowEventNoneOnly(st, sid, month_key, row) ==
    LET pid == Str(row.project_id)
        c == IF row.champion.k # "none"
             THEN get_champion_id(st, Str(row.champion))
             ELSE LET pr == ProjectRows(st, sid, pid)
                  IN  [st |-> st,
                       id |-> IF pr # {} THEN (CHOOSE p \in pr : TRUE).champion_id ELSE NULL]
    IN  [st |-> c.st,
         row |-> [snapshot_id |-> sid,
                  month_key |-> month_key,
                  project_id |-> pid,
                  champion_id |-> c.id,
                  is_new_proposal |-> FlagOf(row.is_new_proposal),
                  is_approved |-> FlagOf(row.is_approved),
                  note |-> StrOrNull(row.note)]]

\* the event row import_snapshot writes for a month-sheet row, and the store
\* after the champion was resolved
EventRowEvent(st, sid, month_key, row) ==
    LET pid == Str(row.project_id)
        c == IF Truthy(row.champion) /\ Strip(Str(row.champion)) # <<>>
             THEN get_champion_id(st, Str(row.champion))
             ELSE LET pr == ProjectRows(st, sid, pid)
                  IN  [st |-> st,
                       id |-> IF pr # {} THEN (CHOOSE p \in pr : TRUE).champion_id ELSE NULL]
    IN  [st |-> c.st,
         row |-> [snapshot_id |-> sid,
                  month_key |-> month_key,
                  project_id |-> pid,
                  champion_id |-> c.id,
                  is_new_proposal |-> FlagOf(row.is_new_proposal),
                  is_approved |-> FlagOf(row.is_approved),
                  note |-> StrOrNull(row.note)]]

\* all(cell.value is None for cell in row), over the columns the header maps
AllNone(row) == \A f \in DOMAIN row : row[f].k = "none"

---------------------------------------------------------------------------
(* import_snapshot: the call frame and the report.                         *)

IdleFrame ==
    [pc |-> "idle", filename |-> <<>>, snapshot_date |-> <<>>, snapshot_id |-> 0,
     month_key |-> <<>>, sheets |-> {}, processed_projects |-> 0,
     processed_events |-> 0, warnings |-> <<>>]

NoReturn ==
    [how |-> "none", success |-> FALSE, errors |-> <<>>, processed_projects |-> 0,
     processed_events |-> 0, warnings |-> <<>>]

\* SnapshotReport(success=False, ..., errors=[tag])
Failure(tag, pp, pe, w) ==
    [how |-> "returned", success |-> FALSE, errors |-> <<tag>>,
     processed_projects |-> pp, processed_events |-> pe, warnings |-> w]

\* SnapshotReport(success=True, ..., errors=errors): errors is never appended to
Success(pp, pe, w) ==
    [how |-> "returned", success |-> TRUE, errors |-> <<>>,
     processed_projects |-> pp, processed_events |-> pe, warnings |-> w]

\* an exception leaving import_snapshot
Raised == [NoReturn EXCEPT !.how = "raised"]

NothingSeen == [read |-> FALSE, snapshot |-> FALSE, projects |-> {}, events |-> {}]

InTransaction == imp.pc \in {"master", "sheets", "events", "except"}
InProgress == imp.pc # "idle"

\* the second connection holds the write lock of the database file: its
\* import has written and has neither committed nor rolled back.  A write of
\* this connection waits for the lock (sqlite3.connect's timeout, 5 seconds by
\* default) and raises OperationalError when the wait runs out.
OtherWrites == other.imp.pc \in {"master", "sheets", "events", "except"}

---------------------------------------------------------------------------
(* The inputs the exploration draws from.                                  *)

Chars(a, b) == <<a, b>>
P1 == Chars("P", "1")
P9 == Chars("P", "9")

\* 2025-01-01.xlsx, 2025-02-01.xlsx and 2025-1-1.xlsx, which the pattern rejects
File1 == <<"2", "0", "2", "5", "-", "0", "1", "-", "0", "1", ".", "x", "l", "s", "x">>
File2 == <<"2", "0", "2", "5", "-", "0", "2", "-", "0", "1", ".", "x", "l", "s", "x">>
FileBad == <<"2", "0", "2", "5", "-", "1", "-", "1", ".", "x", "l", "s", "x">>
Filenames == {File1, File2, FileBad}

Month1 == <<"2", "0", "2", "5", "-", "0", "1">>
Month2 == <<"2", "0", "2", "5", "-", "0", "2">>
SheetNotes == <<"N", "o", "t", "e", "s">>
SheetNames == {Month1, Month2, SheetNotes, AX_MASTER}

MasterHeaderFull ==
    <<"GwajeID", "GwajeMyeong", "Champion", "JeonryakBunryu", "Suhaeng Buseo",
      "SimuiSangtae", "JeanWol", "SeunginWol">>
EventHeaderFull == <<"GwajeID", "Champion", "SingyuJeanYeobu", "SeunginYeobu", "Bigo">>

\* the workbook as far as the checks before the transaction read it: whether
\* load_workbook succeeds, whether AX_Master is among wb.sheetnames, whether
\* wb["AX_Master"] is a worksheet or a chart sheet (openpyxl lists both in
\* sheetnames, and a Chartsheet has no iter_rows), and its header row
Workbook(loads, has_master, master_kind, master_headers) ==
    [loads |-> loads, has_master |-> has_master, master_kind |-> master_kind,
     master_headers |-> master_headers]

GoodWorkbook == Workbook(TRUE, TRUE, "worksheet", MasterHeaderFull)

Workbooks ==
    {Workbook(FALSE, TRUE, "worksheet", MasterHeaderFull),
     Workbook(TRUE, FALSE, "worksheet", MasterHeaderFull),
     Workbook(TRUE, TRUE, "chartsheet", <<>>),
     Workbook(TRUE, TRUE, "worksheet", <<"GwajeID", "Champion">>),
     Workbook(TRUE, TRUE, "worksheet", <<"Memo">> \o MasterHeaderFull \o <<"GwajeID">>),
     GoodWorkbook}

EventHeaders == {EventHeaderFull, <<"GwajeID", "Champion", "Bigo">>}

\* a master data row, by internal field (row[header_index[field]].value)
MasterRow(pid, name, champion, strategy, org, status, proposed, approved) ==
    [project_id |-> pid, project_name |-> name, champion |-> champion,
     strategy |-> strategy, org_unit |-> org, status |-> status,
     proposed_month |-> proposed, approved_month |-> approved]

\* a month-sheet data row, by internal field
EventRow(pid, champion, new, approved, note) ==
    [project_id |-> pid, champion |-> champion, is_new_proposal |-> new,
     is_approved |-> approved, note |-> note]

\* an empty row; a row without a project id that names a champion and a
\* strategy; P1 twice (champion "A" and " A ", status active and ""); project
\* id 2, a number, with champion " A" and a strategy of one space
MasterRows ==
    {MasterRow(NoneCell, NoneCell, NoneCell, NoneCell, NoneCell, NoneCell, NoneCell, NoneCell),
     MasterRow(StrCell(<<>>), NoneCell, StrCell(<<"B">>), StrCell(<<"T">>), NoneCell,
               NoneCell, NoneCell, NoneCell),
     MasterRow(StrCell(P1), StrCell(<<"N">>), StrCell(<<"A">>), StrCell(<<"S">>),
               StrCell(<<"O">>), StrCell(ACTIVE_STATUS), StrCell(Month1), IntCell(0)),
     MasterRow(StrCell(P1), StrCell(<<>>), StrCell(<<" ", "A", " ">>), StrCell(<<"S", " ">>),
               StrCell(<<>>), StrCell(<<>>), NoneCell, StrCell(Month2)),
     MasterRow(IntCell(2), NoneCell, StrCell(<<" ", "A">>), StrCell(<<" ">>), NoneCell,
               NoneCell, NoneCell, NoneCell)}

\* an empty row; a row without a project id; P1 with champion "A "; project id
\* 2, as text, with champion "B"; the unknown id P9
EventSheetRows ==
    {EventRow(NoneCell, NoneCell, NoneCell, NoneCell, NoneCell),
     EventRow(NoneCell, StrCell(<<"B">>), IntCell(1), NoneCell, NoneCell),
     EventRow(StrCell(P1), StrCell(<<"A", " ">>), IntCell(1), IntCell(0), NoneCell),
     EventRow(StrCell(<<"2">>), StrCell(<<"B">>), StrCell(<<"0", " ">>), StrCell(<<"Y">>),
              StrCell(<<"n">>)),
     EventRow(StrCell(P9), StrCell(<<"B">>), IntCell(1), IntCell(1), NoneCell)}

\* what the exploration of the imports alone draws from
AllInputs ==
    [filenames |-> Filenames, workbooks |-> Workbooks, master_rows |-> MasterRows,
     sheet_names |-> SheetNames, event_headers |-> EventHeaders,
     event_rows |-> EventSheetRows]

\* the workbooks imported between edits: well-formed ones, whose AX_Master rows
\* are P1 with no status and project 2, with one month sheet whose rows are
\* an event of P1 and an event of the unknown P9
EditedInputs ==
    [filenames |-> {File1, File2},
     workbooks |-> {GoodWorkbook},
     master_rows |->
        {MasterRow(StrCell(P1), StrCell(<<>>), StrCell(<<" ", "A", " ">>),
                   StrCell(<<"S", " ">>), StrCell(<<>>), StrCell(<<>>), NoneCell,
                   StrCell(Month2)),
         MasterRow(IntCell(2), NoneCell, NoneCell, NoneCell, NoneCell, NoneCell, NoneCell,
                   NoneCell)},
     sheet_names |-> {Month1},
     event_headers |-> {EventHeaderFull},
     event_rows |->
        {EventRow(StrCell(P1), NoneCell, IntCell(1), IntCell(0), NoneCell),
         EventRow(StrCell(P9), StrCell(<<"B">>), IntCell(1), IntCell(1), NoneCell)}]

\* the values of a flag cell: no value, "0", " 0", the number 0, "Y", the
\* number 1, text without a character, one space
FlagCells ==
    {NoneCell, StrCell(<<"0">>), StrCell(<<" ", "0">>), IntCell(0), StrCell(<<"Y">>),
     IntCell(1), StrCell(<<>>), StrCell(<<" ">>)}

\* workbooks of one project and one month sheet, whose event rows carry every
\* pair of flag cells
FlagInputs ==
    [filenames |-> {File1, File2},
     workbooks |-> {GoodWorkbook},
     master_rows |->
        {MasterRow(StrCell(P1), StrCell(<<"N">>), StrCell(<<"A">>), StrCell(<<"S">>),
                   NoneCell, NoneCell, NoneCell, NoneCell)},
     sheet_names |-> {Month1},
     event_headers |-> {EventHeaderFull},
     event_rows |->
        {EventRow(StrCell(P1), NoneCell, a, b, NoneCell) : a \in FlagCells, b \in FlagCells}]

\* workbooks for the metrics: a project with champion A and strategy S that is
\* active, a project 2 without champion and strategy, a project with champion B
\* and strategy T; two month sheets; an event of P1 whose champion is named
\* like the label of the unassigned, an event of project 2 without champion,
\* an event of project 2 with champion B
MetricsInputs ==
    [filenames |-> {File1, File2},
     workbooks |-> {GoodWorkbook},
     master_rows |->
        {MasterRow(StrCell(P1), StrCell(<<"N">>), StrCell(<<"A">>), StrCell(<<"S">>),
                   NoneCell, StrCell(ACTIVE_STATUS), NoneCell, NoneCell),
         MasterRow(IntCell(2), NoneCell, NoneCell, NoneCell, NoneCell, NoneCell, NoneCell,
                   NoneCell),
         MasterRow(StrCell(P1), StrCell(<<"M">>), StrCell(<<"B">>), StrCell(<<"T">>),
                   NoneCell, NoneCell, NoneCell, NoneCell)},
     sheet_names |-> {Month1, Month2},
     event_headers |-> {EventHeaderFull},
     event_rows |->
        {EventRow(StrCell(P1), StrCell(UNASSIGNED), IntCell(1), IntCell(1), NoneCell),
         EventRow(IntCell(2), NoneCell, IntCell(1), IntCell(0), NoneCell),
         EventRow(IntCell(2), StrCell(<<"B">>), IntCell(0), IntCell(1), NoneCell)}]

\* workbooks for the champion of an event: P1 with champion A, project 2
\* without champion; two month sheets; events of either project whose champion
\* cell has no value, is one space, names A with a trailing space, or names B
\* between spaces
ChampionInputs ==
    [filenames |-> {File1, File2},
     workbooks |-> {GoodWorkbook},
     master_rows |->
        {MasterRow(StrCell(P1), StrCell(<<"N">>), StrCell(<<"A">>), NoneCell, NoneCell,
                   NoneCell, NoneCell, NoneCell),
         MasterRow(IntCell(2), NoneCell, NoneCell, NoneCell, NoneCell, NoneCell, NoneCell,
                   NoneCell)},
     sheet_names |-> {Month1, Month2},
     event_headers |-> {EventHeaderFull},
     event_rows |->
        {EventRow(pid, c, IntCell(1), NoneCell, NoneCell) :
            pid \in {StrCell(P1), IntCell(2)},
            c \in {NoneCell, StrCell(<<" ">>), StrCell(<<"A", " ">>),
                   StrCell(<<" ", "B", " ">>)}}]

\* the projects and the store after the master rows of a workbook were
\* written (rows of distinct project ids)
RECURSIVE ImportMasterRows(_, _, _)
ImportMasterRows(st, sid, rows) ==
    IF rows = <<>> THEN st
    ELSE LET r == MasterRowProject(st, sid, Head(rows))
         IN  ImportMasterRows([r.st EXCEPT !.projects = @ \cup {r.row}], sid, Tail(rows))

\* the same for the rows of a month sheet (rows of distinct listed projects)
RECURSIVE ImportEventRows(_, _, _, _)
ImportEventRows(st, sid, month_key, rows) ==
    IF rows = <<>> THEN st
    ELSE LET r == EventRowEvent(st, sid, month_key, Head(rows))
         IN  ImportEventRows([r.st EXCEPT !.project_monthly_events = @ \cup {r.row}],
                             sid, month_key, Tail(rows))

\* the store after the successful import, into an empty store, of 2025-01-01.xlsx
\* with the given master rows and one month sheet of the given rows
ImportedStore(master, month_key, events) ==
    ImportEventRows(
        ImportMasterRows(InsertSnapshot(EmptyStore, SnapshotDate(File1), 1, File1), 1, master),
        1, month_key, events)

\* stores of three projects with an event each in the first month: P1
\* (champion B, strategy T, active), project 2 (champion A, strategy S, active)
\* and P9 (champion A or none, strategy S or none); every event names A, the
\* label of the unassigned, or no champion, and sets one flag or both
BoardStores ==
    LET champs == {NoneCell, StrCell(<<"A">>), StrCell(UNASSIGNED)}
        flags == {<<1, 1>>, <<1, 0>>, <<0, 1>>}
        m1 == MasterRow(StrCell(P1), StrCell(<<"N">>), StrCell(<<"B">>), StrCell(<<"T">>),
                        NoneCell, StrCell(ACTIVE_STATUS), NoneCell, NoneCell)
        m2 == MasterRow(IntCell(2), NoneCell, StrCell(<<"A">>), StrCell(<<"S">>),
                        NoneCell, StrCell(ACTIVE_STATUS), NoneCell, NoneCell)
        m3(c, g) == MasterRow(StrCell(P9), NoneCell, c, g, NoneCell, NoneCell, NoneCell,
                              NoneCell)
        ev(pid, c, f) == EventRow(pid, c, IntCell(f[1]), IntCell(f[2]), NoneCell)
    IN  {ImportedStore(<<m1, m2, m3(c, g)>>, Month1,
                       <<ev(StrCell(P1), c1, f1), ev(IntCell(2), c2, f2),
                         ev(StrCell(P9), c3, f3)>>) :
            c \in {NoneCell, StrCell(<<"A">>)}, g \in {NoneCell, StrCell(<<"S">>)},
            c1 \in champs, c2 \in champs, c3 \in champs,
            f1 \in flags, f2 \in flags, f3 \in flags}

\* the month arguments of the metrics: the two sheets' months and a later one
Month3 == <<"2", "0", "2", "5", "-", "0", "3">>
MetricsMonthArgs == {Month1, Month2, Month3}

Times == 1..MaxTime

---------------------------------------------------------------------------
(* import_snapshot, one action per step of the call.                       *)

Return(r) ==
    /\ ret' = r
    /\ imp' = IdleFrame

\* whether the checks before the connection is opened let the call through
PassesChecks(filename, wb) ==
    /\ FilenameMatch(filename)
    /\ wb.loads
    /\ wb.has_master
    /\ wb.master_kind = "worksheet"
    /\ MissingCols(wb.master_headers, expected_master_cols) = {}

\* the checks before the connection is opened: filename, load_workbook,
\* AX_Master present, its header row read (outside any try block), its
\* required columns
ImportStart(filename, wb) ==
    /\ imp.pc = "idle"
    /\ ed.pc = "idle"
    /\ hist' = [hist EXCEPT !.sid = 0, !.rowsM = 0, !.rowsE = 0, !.pendC = {}, !.pendS = {},
                            !.dup = /\ FilenameMatch(filename)
                                    /\ SnapshotIdsByDate(db, SnapshotDate(filename)) # {},
                            !.passed = PassesChecks(filename, wb)]
    /\ seen' = NothingSeen
    /\ UNCHANGED <<db, tx, ed, other>>
    /\ IF ~FilenameMatch(filename)
       THEN Return(Failure(<<"Filename does not match pattern">>, 0, 0, <<>>))
       ELSE IF ~wb.loads
       THEN Return(Failure(<<"Workbook load error">>, 0, 0, <<>>))
       ELSE IF ~wb.has_master
       THEN Return(Failure(<<"AX_Master missing">>, 0, 0, <<>>))
       ELSE IF wb.master_kind # "worksheet"
       THEN Return(Raised)  \* AttributeError: no iter_rows
       ELSE IF MissingCols(wb.master_headers, expected_master_cols) # {}
       THEN Return(Failure(<<"Missing columns">>, 0, 0, <<>>))
       ELSE /\ imp' = [IdleFrame EXCEPT !.pc = "connected", !.filename = filename,
                                        !.snapshot_date = SnapshotDate(filename)]
            /\ ret' = NoReturn

\* the same with the duplicate-date SELECT left out
ImportCheckDuplicateSkipped ==
    /\ imp.pc = "connected"
    /\ imp' = [imp EXCEPT !.pc = "insert"]
    /\ UNCHANGED <<db, tx, ed, ret, seen, hist, other>>

\* conn = get_connection(); the duplicate-date SELECT
ImportCheckDuplicate ==
    /\ imp.pc = "connected"
    /\ UNCHANGED <<db, tx, ed, seen, hist, other>>
    /\ IF SnapshotIdsByDate(db, imp.snapshot_date) # {}
       THEN Return(Failure(<<"Duplicate snapshot date">>, 0, 0, <<>>))
       ELSE /\ imp' = [imp EXCEPT !.pc = "insert"]
            /\ UNCHANGED ret

\* the same on a connection in autocommit mode: the row is committed at once
ImportInsertSnapshotAutocommit(uploaded_at) ==
    /\ imp.pc = "insert"
    /\ UNCHANGED <<ed, ret, seen, other>>
    /\ IF SnapshotIdsByDate(db, imp.snapshot_date) # {}
       THEN /\ imp' = [imp EXCEPT !.pc = "except"]
            /\ UNCHANGED <<db, tx, hist>>
       ELSE /\ tx' = InsertSnapshot(db, imp.snapshot_date, uploaded_at, imp.filename)
            /\ db' = tx'
            /\ imp' = [imp EXCEPT !.pc = "master", !.snapshot_id = Len(db.snapshots) + 1]
            /\ hist' = [hist EXCEPT !.sid = Len(db.snapshots) + 1]

\* the same on a table without UNIQUE(snapshot_date)
ImportInsertSnapshotNoUnique(uploaded_at) ==
    /\ imp.pc = "insert"
    /\ ~OtherWrites
    /\ UNCHANGED <<db, ed, ret, seen, other>>
    /\ tx' = InsertSnapshot(db, imp.snapshot_date, uploaded_at, imp.filename)
    /\ imp' = [imp EXCEPT !.pc = "master", !.snapshot_id = Len(db.snapshots) + 1]
    /\ hist' = [hist EXCEPT !.sid = Len(db.snapshots) + 1]

\* INSERT INTO snapshots while the other connection holds the write lock for
\* longer than the timeout: OperationalError (database is locked), and the
\* handler's rollback and catch-all report
ImportInsertBusy ==
    /\ imp.pc = "insert"
    /\ OtherWrites
    /\ tx' = db
    /\ UNCHANGED <<db, ed, seen, hist, other>>
    /\ Return(Failure(<<"Unhandled exception during import">>, imp.processed_projects,
                      imp.processed_events, imp.warnings))

\* INSERT INTO snapshots: the first write opens the transaction, once no
\* other connection holds the write lock; snapshot_date is UNIQUE
ImportInsertSnapshot(uploaded_at) ==
    /\ imp.pc = "insert"
    /\ ~OtherWrites
    /\ UNCHANGED <<db, ed, ret, seen, other>>
    /\ IF SnapshotIdsByDate(db, imp.snapshot_date) # {}
       THEN /\ imp' = [imp EXCEPT !.pc = "except"]
            /\ UNCHANGED <<tx, hist>>
       ELSE /\ tx' = InsertSnapshot(db, imp.snapshot_date, uploaded_at, imp.filename)
            /\ imp' = [imp EXCEPT !.pc = "master", !.snapshot_id = Len(db.snapshots) + 1]
            /\ hist' = [hist EXCEPT !.sid = Len(db.snapshots) + 1]

\* one iteration of the loop over the AX_Master data rows
ImportMasterRow(row) ==
    /\ imp.pc = "master"
    /\ hist.nMaster < MaxMasterRows
    /\ UNCHANGED <<db, ed, ret, seen, other>>
    /\ hist' = IF AllNone(row) THEN hist
               ELSE IF ~Truthy(row.project_id) THEN [hist EXCEPT !.nMaster = @ + 1]
               ELSE [hist EXCEPT !.nMaster = @ + 1, !.rowsM = @ + 1,
                                 !.pendC = @ \cup NameOf(row.champion),
                                 !.pendS = @ \cup NameOf(row.strategy)]
    /\ IF AllNone(row)
       THEN UNCHANGED <<tx, imp>>
       ELSE IF ~Truthy(row.project_id)
       THEN /\ imp' = [imp EXCEPT !.warnings = Append(@, "Blank project_id in AX_Master")]
            /\ UNCHANGED tx
       ELSE LET r == MasterRowProject(tx, imp.snapshot_id, row)
            IN  IF ProjectRows(r.st, imp.snapshot_id, r.row.project_id) # {}
                THEN \* IntegrityError: PRIMARY KEY (snapshot_id, project_id)
                     /\ tx' = r.st
                     /\ imp' = [imp EXCEPT !.pc = "except"]
                ELSE /\ tx' = [r.st EXCEPT !.projects = @ \cup {r.row}]
                     /\ imp' = [imp EXCEPT !.processed_projects = @ + 1]

\* the same with a conn.commit() once the master rows are written
ImportMasterEndCommitting ==
    /\ imp.pc = "master"
    /\ imp' = [imp EXCEPT !.pc = "sheets"]
    /\ db' = tx
    /\ UNCHANGED <<tx, ed, ret, seen, hist, other>>

\* the AX_Master rows are exhausted
ImportMasterEnd ==
    /\ imp.pc = "master"
    /\ imp' = [imp EXCEPT !.pc = "sheets"]
    /\ UNCHANGED <<db, tx, ed, ret, seen, hist, other>>

\* the same, reading the header of a sheet before the test of its name
ImportSheetHeaderFirst(sheet_name, headers) ==
    /\ imp.pc = "sheets"
    /\ hist.nSheets < MaxSheets
    /\ sheet_name \notin imp.sheets
    /\ UNCHANGED <<db, ed, seen, other>>
    /\ hist' = IF sheet_name = AX_MASTER THEN hist ELSE [hist EXCEPT !.nSheets = @ + 1]
    /\ IF sheet_name = AX_MASTER
       THEN UNCHANGED <<tx, imp, ret>>
       ELSE IF MissingCols(headers, expected_event_cols) # {}
       THEN /\ tx' = db
            /\ Return(Failure(<<"Missing event columns">>, imp.processed_projects,
                              imp.processed_events, imp.warnings))
       ELSE IF ~MonthSheetMatch(sheet_name)
       THEN /\ imp' = [imp EXCEPT !.sheets = @ \cup {sheet_name},
                                  !.warnings = Append(@, "Sheet ignored due to invalid name")]
            /\ UNCHANGED <<tx, ret>>
       ELSE /\ imp' = [imp EXCEPT !.sheets = @ \cup {sheet_name}, !.pc = "events",
                                  !.month_key = sheet_name]
            /\ UNCHANGED <<tx, ret>>

\* one iteration of the loop over wb.sheetnames, up to the sheet's header
ImportSheet(sheet_name, headers) ==
    /\ imp.pc = "sheets"
    /\ hist.nSheets < MaxSheets
    /\ sheet_name \notin imp.sheets
    /\ UNCHANGED <<db, ed, seen, other>>
    /\ hist' = IF sheet_name = AX_MASTER THEN hist ELSE [hist EXCEPT !.nSheets = @ + 1]
    /\ IF sheet_name = AX_MASTER
       THEN UNCHANGED <<tx, imp, ret>>
       ELSE IF ~MonthSheetMatch(sheet_name)
       THEN /\ imp' = [imp EXCEPT !.sheets = @ \cup {sheet_name},
                                  !.warnings = Append(@, "Sheet ignored due to invalid name")]
            /\ UNCHANGED <<tx, ret>>
       ELSE IF MissingCols(headers, expected_event_cols) # {}
       THEN /\ tx' = db  \* conn.rollback()
            /\ Return(Failure(<<"Missing event columns">>, imp.processed_projects,
                              imp.processed_events, imp.warnings))
       ELSE /\ imp' = [imp EXCEPT !.sheets = @ \cup {sheet_name}, !.pc = "events",
                                  !.month_key = sheet_name]
            /\ UNCHANGED <<tx, ret>>

\* one iteration of the loop over a month sheet's data rows
ImportEventRow(row) ==
    /\ imp.pc = "events"
    /\ hist.nEvent < MaxEventRows
    /\ UNCHANGED <<db, ed, seen, other>>
    /\ hist' = IF AllNone(row) THEN hist
               ELSE IF ~Truthy(row.project_id) THEN [hist EXCEPT !.nEvent = @ + 1]
               ELSE IF ~ProjectExists(tx, imp.snapshot_id, Str(row.project_id))
               THEN [hist EXCEPT !.nEvent = @ + 1, !.rowsE = @ + 1]
               ELSE [hist EXCEPT !.nEvent = @ + 1, !.rowsE = @ + 1,
                                 !.pendC = @ \cup NameOf(row.champion)]
    /\ IF AllNone(row)
       THEN UNCHANGED <<tx, imp, ret>>
       ELSE IF ~Truthy(row.project_id)
       THEN /\ imp' = [imp EXCEPT !.warnings = Append(@, "Blank project_id in sheet")]
            /\ UNCHANGED <<tx, ret>>
       ELSE IF ~ProjectExists(tx, imp.snapshot_id, Str(row.project_id))
       THEN /\ tx' = db  \* conn.rollback()
            /\ Return(Failure(<<"Unknown project_id", Str(row.project_id)>>,
                              imp.processed_projects, imp.processed_events, imp.warnings))
       ELSE LET r == EventRowEvent(tx, imp.snapshot_id, imp.month_key, row)
            IN  IF EventRows(r.st, imp.snapshot_id, imp.month_key, r.row.project_id) # {}
                THEN \* IntegrityError: PRIMARY KEY (snapshot_id, month_key, project_id)
                     /\ tx' = r.st
                     /\ imp' = [imp EXCEPT !.pc = "except"]
                     /\ UNCHANGED ret
                ELSE /\ tx' = [r.st EXCEPT !.project_monthly_events = @ \cup {r.row}]
                     /\ imp' = [imp EXCEPT !.processed_events = @ + 1]
                     /\ UNCHANGED ret

\* the same with processed_events counted per sheet
ImportSheetEndResetting ==
    /\ imp.pc = "events"
    /\ imp' = [imp EXCEPT !.pc = "sheets", !.processed_events = 0]
    /\ UNCHANGED <<db, tx, ed, ret, seen, hist, other>>

\* the month sheet's rows are exhausted
ImportSheetEnd ==
    /\ imp.pc = "events"
    /\ imp' = [imp EXCEPT !.pc = "sheets"]
    /\ UNCHANGED <<db, tx, ed, ret, seen, hist, other>>

\* the sheets are exhausted: conn.commit() and the success report
ImportCommit ==
    /\ imp.pc = "sheets"
    /\ db' = tx
    /\ hist' = [hist EXCEPT !.champions = @ \cup hist.pendC,
                            !.strategies = @ \cup hist.pendS,
                            !.pendC = {}, !.pendS = {}]
    /\ UNCHANGED <<tx, ed, seen, other>>
    /\ Return(Success(imp.processed_projects, imp.processed_events, imp.warnings))

\* the same with a commit where the handler rolls back
ImportExceptCommitting ==
    /\ imp.pc = "except"
    /\ db' = tx
    /\ UNCHANGED <<tx, ed, seen, hist, other>>
    /\ Return(Failure(<<"Unhandled exception during import">>, imp.processed_projects,
                      imp.processed_events, imp.warnings))

\* except Exception: conn.rollback() and the catch-all report
ImportExcept ==
    /\ imp.pc = "except"
    /\ tx' = db
    /\ UNCHANGED <<db, ed, seen, hist, other>>
    /\ Return(Failure(<<"Unhandled exception during import">>, imp.processed_projects,
                      imp.processed_events, imp.warnings))

\* a read on another connection, at one point in time, of what is stored under
\* the snapshot id the current (or the last) import writes with: the snapshot
\* row, then the keys of its projects and of its events
ReadSnapshot ==
    /\ hist.sid # 0
    /\ seen' = [read |-> TRUE,
                snapshot |-> hist.sid \in DOMAIN Visible.snapshots,
                projects |-> {p.project_id :
                                p \in {q \in Visible.projects : q.snapshot_id = hist.sid}},
                events |-> {<<e.month_key, e.project_id>> :
                              e \in {q \in Visible.project_monthly_events :
                                       q.snapshot_id = hist.sid}}]
    /\ UNCHANGED <<db, tx, imp, ed, ret, hist, other>>

---------------------------------------------------------------------------
(* record_audit and the CRUD editors.                                      *)

\* the column names of the two edited tables, in sorted() order
ColumnOrder ==
    <<"approved_month", "champion_id", "current_status", "is_approved",
      "is_new_proposal", "note", "org_unit", "project_name", "proposed_month",
      "strategy_id">>

\* dict(row) of the project columns update_project selects: key/value pairs
ProjectDict(p) ==
    <<<<"project_name", p.project_name>>, <<"champion_id", p.champion_id>>,
      <<"strategy_id", p.strategy_id>>, <<"org_unit", p.org_unit>>,
      <<"current_status", p.current_status>>, <<"proposed_month", p.proposed_month>>,
      <<"approved_month", p.approved_month>>>>

\* dict(row) of the event columns update_event selects
EventDict(e) ==
    <<<<"champion_id", e.champion_id>>, <<"is_new_proposal", e.is_new_proposal>>,
      <<"is_approved", e.is_approved>>, <<"note", e.note>>>>

Keys(d) == {d[i][1] : i \in DOMAIN d}

\* ','.join(sorted(before_keys.union(after_keys))), as the list joined
SortedUnion(a, b) ==
    LET in(k) == k \in Keys(a) \cup Keys(b)
    IN  SelectSeq(ColumnOrder, in)

\* json.dumps of one value of a row mapping: None, an int or a str, by the
\* column's type (a str between quotes; its characters are not escaped here)
JsonValue(k, v) ==
    CASE k \in {"project_name", "current_status"} -> <<"\"">> \o v \o <<"\"">>
      [] k \in {"org_unit", "proposed_month", "approved_month", "note"} ->
            IF v = NULL THEN <<"n", "u", "l", "l">> ELSE <<"\"">> \o v[1] \o <<"\"">>
      [] k \in {"champion_id", "strategy_id"} ->
            IF v = NULL THEN <<"n", "u", "l", "l">> ELSE NatStr(v[1])
      [] OTHER -> NatStr(v)

RECURSIVE JsonItems(_)
JsonItems(d) ==
    IF d = <<>> THEN <<>>
    ELSE <<"\"", d[1][1], "\"", ":", " ">> \o JsonValue(d[1][1], d[1][2])
         \o (IF Len(d) > 1 THEN <<",", " ">> ELSE <<>>) \o JsonItems(Tail(d))

\* json.dumps(mapping)
JsonDumps(d) == <<"{">> \o JsonItems(d) \o <<"}">>

\* the same with changed_fields computed from whichever mappings are supplied
record_audit_union(st, snapshot_id, entity_type, entity_key, action, before, after, actor, now) ==
    [st EXCEPT !.audit_logs =
        Append(@, [snapshot_id |-> snapshot_id,
                   entity_type |-> entity_type,
                   entity_key |-> entity_key,
                   action |-> action,
                   changed_fields |->
                       Some(SortedUnion(IF before = NULL THEN <<>> ELSE before[1],
                                        IF after = NULL THEN <<>> ELSE after[1])),
                   before_json |-> IF before # NULL THEN Some(JsonDumps(before[1])) ELSE NULL,
                   after_json |-> IF after # NULL THEN Some(JsonDumps(after[1])) ELSE NULL,
                   actor |-> actor,
                   acted_at |-> now])]

\* record_audit: before and after are NULL (None) or Some(dict)
record_audit(st, snapshot_id, entity_type, entity_key, action, before, after, actor, now) ==
    [st EXCEPT !.audit_logs =
        Append(@, [snapshot_id |-> snapshot_id,
                   entity_type |-> entity_type,
                   entity_key |-> entity_key,
                   action |-> action,
                   changed_fields |-> IF before # NULL /\ after # NULL
                                      THEN Some(SortedUnion(before[1], after[1]))
                                      ELSE NULL,
                   before_json |-> IF before # NULL THEN Some(JsonDumps(before[1])) ELSE NULL,
                   after_json |-> IF after # NULL THEN Some(JsonDumps(after[1])) ELSE NULL,
                   actor |-> actor,
                   acted_at |-> now])]

\* x if x not in (None, 0, '0', '') else None, of an optional int
NormaliseId(x) == IF x = NULL \/ x = Some(0) THEN NULL ELSE x

\* the same with WHERE project_id = ?
UpdateProjectAnySnapshot(st, sid, pid, form) ==
    [st EXCEPT !.projects =
        {IF p.project_id = pid
         THEN [p EXCEPT !.project_name = form.project_name,
                        !.champion_id = NormaliseId(form.champion_id),
                        !.strategy_id = NormaliseId(form.strategy_id),
                        !.org_unit = form.org_unit,
                        !.current_status = form.current_status,
                        !.proposed_month = form.proposed_month,
                        !.approved_month = form.approved_month]
         ELSE p : p \in @}]

\* UPDATE projects SET ... WHERE snapshot_id = ? AND project_id = ?
UpdateProject(st, sid, pid, form) ==
    [st EXCEPT !.projects =
        {IF p.snapshot_id = sid /\ p.project_id = pid
         THEN [p EXCEPT !.project_name = form.project_name,
                        !.champion_id = NormaliseId(form.champion_id),
                        !.strategy_id = NormaliseId(form.strategy_id),
                        !.org_unit = form.org_unit,
                        !.current_status = form.current_status,
                        !.proposed_month = form.proposed_month,
                        !.approved_month = form.approved_month]
         ELSE p : p \in @}]

\* 1 if flag else 0, of an optional str
FormFlag(x) == IF x # NULL /\ x # Some(<<>>) THEN 1 ELSE 0

\* UPDATE project_monthly_events SET ... WHERE snapshot_id = ? AND month_key = ?
\* AND project_id = ?
UpdateEvent(st, sid, month, pid, form) ==
    [st EXCEPT !.project_monthly_events =
        {IF e.snapshot_id = sid /\ e.month_key = month /\ e.project_id = pid
         THEN [e EXCEPT !.champion_id = NormaliseId(form.champion_id),
                        !.is_new_proposal = FormFlag(form.is_new_proposal),
                        !.is_approved = FormFlag(form.is_approved),
                        !.note = form.note]
         ELSE e : e \in @}]

IdleEdit ==
    [pc |-> "idle", snapshot_id |-> 0, month |-> <<>>, project_id |-> <<>>,
     form |-> [champion_id |-> NULL], before |-> <<>>]

\* the second connection with no request
IdleOther == [imp |-> IdleFrame, ed |-> IdleEdit, ret |-> NoReturn, tx |-> EmptyStore]

\* the forms the exploration posts.  A Form(...) field is required, and
\* FastAPI takes an empty form value for a missing one: project_name and
\* current_status reach the handler non-empty; a Form(None) field that is
\* empty reaches it as None.
ProjectForms ==
    {[project_name |-> <<"M">>, champion_id |-> Some(1), strategy_id |-> Some(3),
      org_unit |-> Some(<<"O">>), current_status |-> <<" ">>,
      proposed_month |-> Some(Month1), approved_month |-> NULL],
     [project_name |-> <<"N">>, champion_id |-> Some(0), strategy_id |-> NULL,
      org_unit |-> NULL, current_status |-> ACTIVE_STATUS,
      proposed_month |-> NULL, approved_month |-> NULL]}

EventForms ==
    {[champion_id |-> Some(3), is_new_proposal |-> Some(<<"t", "r", "u", "e">>),
      is_approved |-> Some(<<"0">>), note |-> Some(<<"n">>)],
     [champion_id |-> NULL, is_new_proposal |-> NULL, is_approved |-> NULL,
      note |-> NULL]}

\* the forms posted to a store the metrics read: a project form with a
\* strategy id and an event form with a champion id that no row carries
MetricsProjectForms ==
    {[project_name |-> <<"N">>, champion_id |-> NULL, strategy_id |-> Some(9),
      org_unit |-> NULL, current_status |-> ACTIVE_STATUS,
      proposed_month |-> NULL, approved_month |-> NULL]}

MetricsEventForms ==
    {[champion_id |-> Some(9), is_new_proposal |-> Some(<<"1">>),
      is_approved |-> Some(<<"1">>), note |-> NULL]}

SnapshotIdArgs == {1, 2}
ProjectIdArgs == {P1, <<"2">>}
MonthArgs == {Month1}

\* update_project up to the 404: the SELECT of the row before the edit
UpdateProjectFetch(snapshot_id, project_id, form) ==
    /\ ed.pc = "idle"
    /\ imp.pc = "idle"
    /\ hist.nEdits < MaxEdits
    /\ hist' = [hist EXCEPT !.nEdits = @ + 1, !.sid = 0, !.rowsM = 0, !.rowsE = 0,
                            !.pendC = {}, !.pendS = {}, !.dup = FALSE, !.passed = FALSE]
    /\ ret' = NoReturn
    /\ UNCHANGED <<db, tx, imp, seen, other>>
    /\ LET before == ProjectRows(db, snapshot_id, project_id)
       IN  IF before = {}
           THEN ed' = IdleEdit  \* HTTPException(404)
           ELSE ed' = [pc |-> "project_update", snapshot_id |-> snapshot_id,
                       month |-> <<>>, project_id |-> project_id, form |-> form,
                       before |-> ProjectDict(CHOOSE p \in before : TRUE)]

\* update_project: the UPDATE and conn.commit()
UpdateProjectWrite ==
    /\ ed.pc = "project_update"
    /\ ~OtherWrites
    /\ db' = UpdateProject(db, ed.snapshot_id, ed.project_id, ed.form)
    /\ tx' = db'
    /\ ed' = [ed EXCEPT !.pc = "project_audit"]
    /\ hist' = [hist EXCEPT !.nWrites = @ + 1]
    /\ UNCHANGED <<imp, ret, seen, other>>

\* the same, recording only an edit that changed a value
UpdateProjectAuditIfChanged(now) ==
    /\ ed.pc = "project_audit"
    /\ ~OtherWrites
    /\ LET after == ProjectDict(CHOOSE p \in ProjectRows(db, ed.snapshot_id, ed.project_id) : TRUE)
       IN  db' = IF after = ed.before THEN db
                 ELSE record_audit(db, ed.snapshot_id, "project", ed.project_id, "UPDATE",
                                   Some(ed.before), Some(after), "admin", now)
    /\ tx' = db'
    /\ ed' = IdleEdit
    /\ UNCHANGED <<imp, ret, seen, hist, other>>

\* update_project: the SELECT of the row after the edit and record_audit
UpdateProjectAudit(now) ==
    /\ ed.pc = "project_audit"
    /\ ~OtherWrites
    /\ LET after == ProjectRows(db, ed.snapshot_id, ed.project_id)
       IN  db' = record_audit(db, ed.snapshot_id, "project", ed.project_id, "UPDATE",
                              Some(ed.before), Some(ProjectDict(CHOOSE p \in after : TRUE)),
                              "admin", now)
    /\ tx' = db'
    /\ ed' = IdleEdit
    /\ UNCHANGED <<imp, ret, seen, hist, other>>

\* update_event up to the 404: the SELECT of the row before the edit
UpdateEventFetch(snapshot_id, month, project_id, form) ==
    /\ ed.pc = "idle"
    /\ imp.pc = "idle"
    /\ hist.nEdits < MaxEdits
    /\ hist' = [hist EXCEPT !.nEdits = @ + 1, !.sid = 0, !.rowsM = 0, !.rowsE = 0,
                            !.pendC = {}, !.pendS = {}, !.dup = FALSE, !.passed = FALSE]
    /\ ret' = NoReturn
    /\ UNCHANGED <<db, tx, imp, seen, other>>
    /\ LET before == EventRows(db, snapshot_id, month, project_id)
       IN  IF before = {}
           THEN ed' = IdleEdit  \* HTTPException(404)
           ELSE ed' = [pc |-> "event_update", snapshot_id |-> snapshot_id,
                       month |-> month, project_id |-> project_id, form |-> form,
                       before |-> EventDict(CHOOSE e \in before : TRUE)]

\* update_event: the UPDATE and conn.commit()
UpdateEventWrite ==
    /\ ed.pc = "event_update"
    /\ ~OtherWrites
    /\ db' = UpdateEvent(db, ed.snapshot_id, ed.month, ed.project_id, ed.form)
    /\ tx' = db'
    /\ ed' = [ed EXCEPT !.pc = "event_audit"]
    /\ hist' = [hist EXCEPT !.nWrites = @ + 1]
    /\ UNCHANGED <<imp, ret, seen, other>>

\* update_event: the SELECT of the row after the edit and record_audit
UpdateEventAudit(now) ==
    /\ ed.pc = "event_audit"
    /\ ~OtherWrites
    /\ LET after == EventRows(db, ed.snapshot_id, ed.month, ed.project_id)
       IN  db' = record_audit(db, ed.snapshot_id, "event",
                              ed.month \o <<"|">> \o ed.project_id, "UPDATE",
                              Some(ed.before), Some(EventDict(CHOOSE e \in after : TRUE)),
                              "admin", now)
    /\ tx' = db'
    /\ ed' = IdleEdit
    /\ UNCHANGED <<imp, ret, seen, hist, other>>

---------------------------------------------------------------------------
(* The metrics engine (app/services/metrics.py): reads of a store st.      *)
(* A rate is an integer in units of 1/10000, the precision that            *)
(* round(x, 4) leaves.  GROUP BY rows come in SQLite's order: NULL first,  *)
(* then ascending ids.                                                     *)

\* the characters of the model in code point order (the order of str
\* comparison in Python and of BINARY collation in SQLite)
CodeOrder ==
    <<"\t", "\n", " ", "(", ")", "-", ".", "0", "1", "2", "3", "4", "5", "6", "7", "8",
      "9", "A", "B", "M", "N", "O", "P", "S", "T", "Y", "n", "dang", "mi", "seung", "an",
      "in", "je", "jung", "jin", "hal", "haeng">>

Ord(ch) == CHOOSE i \in DOMAIN CodeOrder : CodeOrder[i] = ch

\* a < b of two str
RECURSIVE StrLess(_, _)
StrLess(a, b) ==
    IF b = <<>> THEN FALSE
    ELSE IF a = <<>> THEN TRUE
    ELSE IF Head(a) = Head(b) THEN StrLess(Tail(a), Tail(b))
    ELSE Ord(Head(a)) < Ord(Head(b))

StrLeq(a, b) == a = b \/ StrLess(a, b)

\* list.sort() of distinct str
RECURSIVE SortStrings(_)
SortStrings(S) ==
    IF S = {} THEN <<>>
    ELSE LET m == CHOOSE x \in S : \A y \in S : StrLeq(x, y)
         IN  <<m>> \o SortStrings(S \ {m})

\* ... FROM project_monthly_events WHERE snapshot_id = ?
SnapshotEvents(st, sid) == {e \in st.project_monthly_events : e.snapshot_id = sid}

\* ... FROM projects WHERE snapshot_id = ?
SnapshotProjects(st, sid) == {p \in st.projects : p.snapshot_id = sid}

\* ... WHERE snapshot_id = ? AND month_key = ? AND <flag> = 1
MonthEvents(st, sid, month, flag) ==
    {e \in SnapshotEvents(st, sid) : e.month_key = month /\ e[flag] = 1}

\* ... FROM projects WHERE snapshot_id = ? AND current_status = ACTIVE_STATUS
ActiveProjects(st, sid) ==
    {p \in SnapshotProjects(st, sid) : p.current_status = ACTIVE_STATUS}

get_snapshot_months(st, sid) == SortStrings({e.month_key : e \in SnapshotEvents(st, sid)})

compute_monthly_trend(st, sid) ==
    LET months == get_snapshot_months(st, sid)
    IN  [months |-> months,
         proposals |-> [i \in DOMAIN months |->
                          Cardinality(MonthEvents(st, sid, months[i], "is_new_proposal"))],
         approvals |-> [i \in DOMAIN months |->
                          Cardinality(MonthEvents(st, sid, months[i], "is_approved"))]]

\* the same with month_key = ?
CumulativeApprovedInMonth(st, sid, month) ==
    Cardinality({e.project_id : e \in {x \in SnapshotEvents(st, sid) :
                                        x.month_key = month /\ x.is_approved = 1}})

\* the same with COUNT(*)
CumulativeApprovedEvents(st, sid, month) ==
    Cardinality({x \in SnapshotEvents(st, sid) :
                    StrLeq(x.month_key, month) /\ x.is_approved = 1})

\* SELECT COUNT(DISTINCT project_id) ... WHERE snapshot_id = ? AND
\* month_key <= ? AND is_approved = 1
CumulativeApproved(st, sid, month) ==
    Cardinality({e.project_id : e \in {x \in SnapshotEvents(st, sid) :
                                        StrLeq(x.month_key, month) /\ x.is_approved = 1}})

\* round(n / d, 4) in units of 1/10000, d > 0: the nearest, and the even
\* one of two equally near (a tie needs d to be a multiple of 32)
Round4(n, d) ==
    LET q == (n * 10000) \div d
        r == (n * 10000) % d
    IN  IF 2 * r < d THEN q
        ELSE IF 2 * r > d THEN q + 1
        ELSE IF q % 2 = 0 THEN q ELSE q + 1

\* n / d: raises ZeroDivisionError when d is 0
Divide(n, d) == IF d = 0 THEN [raised |-> TRUE, value |-> 0]
                ELSE [raised |-> FALSE, value |-> Round4(n, d)]

\* the same without the test of d
RateUnguarded(n, d) == Divide(n, d)

\* (n / d) if d else 0.0
RateOrZero(n, d) == IF d # 0 THEN Divide(n, d) ELSE [raised |-> FALSE, value |-> 0]

compute_kpis(st, sid, month) ==
    LET month_proposals == Cardinality(MonthEvents(st, sid, month, "is_new_proposal"))
        month_approvals == Cardinality(MonthEvents(st, sid, month, "is_approved"))
        cumulative_approved == CumulativeApproved(st, sid, month)
        active_champions ==
            Cardinality({e.champion_id : e \in MonthEvents(st, sid, month, "is_new_proposal")
                                              \cup MonthEvents(st, sid, month, "is_approved")}
                        \ {NULL})
        total_champions ==
            Cardinality({p.champion_id : p \in SnapshotProjects(st, sid)} \ {NULL})
        months == get_snapshot_months(st, sid)
        at == {i \in DOMAIN months : months[i] = month}
        idx == CHOOSE i \in at : TRUE
        prev_month == IF at # {} /\ idx > 1 THEN Some(months[idx - 1]) ELSE NULL
        prev_cumulative == IF prev_month # NULL /\ prev_month[1] # <<>>
                           THEN CumulativeApproved(st, sid, prev_month[1]) ELSE 0
        participation_rate == RateOrZero(active_champions, total_champions)
        expansion_rate == RateOrZero(cumulative_approved, prev_cumulative)
        proposal_inflow_rate == RateOrZero(month_proposals, month_approvals)
    IN  [raised |-> participation_rate.raised \/ expansion_rate.raised
                      \/ proposal_inflow_rate.raised,
         month_proposals |-> month_proposals,
         month_approvals |-> month_approvals,
         cumulative_approved |-> cumulative_approved,
         champion_participation_rate |-> participation_rate.value,
         expansion_rate |-> expansion_rate.value,
         proposal_inflow_rate |-> proposal_inflow_rate.value,
         prev_month |-> prev_month,
         prev_cumulative_approved |-> prev_cumulative]

\* champ_map.get(cid): the sentinel label for None, the name of the row, or
\* None when no champion row has the id
ChampMapGet(st, cid) ==
    IF cid = NULL THEN Some(UNASSIGNED)
    ELSE IF cid[1] \in DOMAIN st.champions THEN Some(st.champions[cid[1]].name)
    ELSE NULL

\* SELECT <col>, COUNT(*) ... GROUP BY <col>: the pairs <<key, count>>
GroupCount(rows, col) ==
    {<<k, Cardinality({r \in rows : r[col] = k})>> : k \in {r[col] : r \in rows}}

\* the order of two GROUP BY keys: NULL first, then ascending ids
IdBefore(a, b) == a # b /\ (a = NULL \/ (b # NULL /\ a[1] < b[1]))

\* x[0] or ""
OrEmpty(label) == IF label = NULL THEN <<>> ELSE label[1]

\* the same ordering by ascending count
RankBeforeAscending(st, x, y) ==
    LET lx == OrEmpty(ChampMapGet(st, x[1]))
        ly == OrEmpty(ChampMapGet(st, y[1]))
    IN  \/ x[2] < y[2]
        \/ x[2] = y[2] /\ StrLess(lx, ly)
        \/ x[2] = y[2] /\ lx = ly /\ IdBefore(x[1], y[1])

\* list.sort(key=lambda x: (-x[1], x[0] or "")): group x comes before group y;
\* the sort is stable, so groups of equal key stay in GROUP BY order
RankBefore(st, x, y) ==
    LET lx == OrEmpty(ChampMapGet(st, x[1]))
        ly == OrEmpty(ChampMapGet(st, y[1]))
    IN  \/ x[2] > y[2]
        \/ x[2] = y[2] /\ StrLess(lx, ly)
        \/ x[2] = y[2] /\ lx = ly /\ IdBefore(x[1], y[1])

\* the sorted list of (champ_map.get(cid), count)
RECURSIVE RankingOf(_, _)
RankingOf(st, groups) ==
    IF groups = {} THEN <<>>
    ELSE LET m == CHOOSE x \in groups : \A y \in groups \ {x} : RankBefore(st, x, y)
         IN  <<<<ChampMapGet(st, m[1]), m[2]>>>> \o RankingOf(st, groups \ {m})

compute_ranking(st, sid, month) ==
    [proposal_ranking |->
        RankingOf(st, GroupCount(MonthEvents(st, sid, month, "is_new_proposal"), "champion_id")),
     approval_ranking |->
        RankingOf(st, GroupCount(MonthEvents(st, sid, month, "is_approved"), "champion_id")),
     active_ranking |-> RankingOf(st, GroupCount(ActiveProjects(st, sid), "champion_id"))]

\* result.sort(key=lambda x: x[0] or ""): row x = <<key, name, ...>> comes
\* before row y; rows of equal name stay in the order of strat_map, the
\* strategy rows by id and then the sentinel
DistBefore(x, y) ==
    \/ StrLess(x[2], y[2])
    \/ x[2] = y[2] /\ x[1] # y[1] /\ (y[1] = NULL \/ (x[1] # NULL /\ x[1][1] < y[1][1]))

\* the sorted list of (name, proposals, approvals, active)
RECURSIVE DistributionOf(_)
DistributionOf(rows) ==
    IF rows = {} THEN <<>>
    ELSE LET m == CHOOSE x \in rows : \A y \in rows \ {x} : DistBefore(x, y)
         IN  <<<<m[2], m[3], m[4], m[5]>>>> \o DistributionOf(rows \ {m})

\* compute_distribution: raised is the KeyError of distribution[row["sid"]] for
\* a strategy id that strat_map does not hold
compute_distribution(st, sid, month) ==
    LET keys == {Some(i) : i \in DOMAIN st.strategy_categories} \cup {NULL}
        name(k) == IF k = NULL THEN UNASSIGNED ELSE st.strategy_categories[k[1]].name
        joined(flag) ==
            {j \in MonthEvents(st, sid, month, flag) \X SnapshotProjects(st, sid) :
                j[1].project_id = j[2].project_id}
        proposals == GroupCount({j[2] : j \in joined("is_new_proposal")}, "strategy_id")
        approvals == GroupCount({j[2] : j \in joined("is_approved")}, "strategy_id")
        active == GroupCount(ActiveProjects(st, sid), "strategy_id")
        count(groups, k) == IF \E g \in groups : g[1] = k
                            THEN (CHOOSE g \in groups : g[1] = k)[2] ELSE 0
        raised == \E g \in proposals \cup approvals \cup active : g[1] \notin keys
    IN  [raised |-> raised,
         result |-> IF raised THEN <<>>
                    ELSE DistributionOf({<<k, name(k), count(proposals, k),
                                           count(approvals, k), count(active, k)>> :
                                            k \in keys})]

\* compute_heatmap: a dict keyed by champion name (the sentinel label
\* included), then by month.  Each GROUP BY row assigns its count to the cell
\* of its champion's name: of the rows of one name and month the last one
\* stays; a row whose champion id has no name is skipped.
compute_heatmap(st, sid) ==
    LET names == {UNASSIGNED} \cup {st.champions[i].name : i \in DOMAIN st.champions}
        months == Range(get_snapshot_months(st, sid))
        cell(n, m, flag) ==
            LET groups == {g \in GroupCount(MonthEvents(st, sid, m, flag), "champion_id") :
                              ChampMapGet(st, g[1]) = Some(n)}
            IN  IF groups = {} THEN 0
                ELSE (CHOOSE g \in groups :
                        \A o \in groups \ {g} : IdBefore(o[1], g[1]))[2]
    IN  [n \in names |->
            [m \in months |-> [proposals |-> cell(n, m, "is_new_proposal"),
                               approvals |-> cell(n, m, "is_approved")]]]

\* the mappings a caller hands to record_audit: None, or the mapping of a row
\* (two mappings of different keys, sharing one)
AuditMappings ==
    {NULL,
     Some(<<<<"project_name", <<"N">>>>, <<"champion_id", Some(1)>>>>),
     Some(<<<<"note", NULL>>, <<"champion_id", NULL>>, <<"is_approved", 1>>>>)}

AuditActions == {"INSERT", "UPDATE", "DELETE"}

\* a call of record_audit by any mutation path
RecordAudit(snapshot_id, entity_type, entity_key, action, before, after, now) ==
    /\ ed.pc = "idle"
    /\ imp.pc = "idle"
    /\ Len(db.audit_logs) < MaxEdits
    /\ db' = record_audit(db, snapshot_id, entity_type, entity_key, action, before, after,
                          "admin", now)
    /\ tx' = db'
    /\ UNCHANGED <<imp, ed, ret, seen, hist, other>>

\* the thread of the other request runs: each request has its own connection
\* (get_conn), with its own view of the store, which is the committed store
\* unless the connection is inside its transaction
Switch ==
    /\ other' = [imp |-> imp, ed |-> ed, ret |-> ret,
                 tx |-> IF InTransaction THEN tx ELSE EmptyStore]
    /\ imp' = other.imp
    /\ ed' = other.ed
    /\ ret' = other.ret
    /\ tx' = IF OtherWrites THEN other.tx ELSE db
    /\ UNCHANGED <<db, seen, hist>>

---------------------------------------------------------------------------
(* The specifications.  In Spec and the ones after it operations run one   *)
(* at a time, and a reader on another connection runs at any point; in the *)
(* concurrent ones two requests, each on its own connection, interleave    *)
(* between any two of their statements.                                    *)

Init ==
    /\ db = EmptyStore
    /\ tx = EmptyStore
    /\ imp = IdleFrame
    /\ ed = IdleEdit
    /\ ret = NoReturn
    /\ seen = NothingSeen
    /\ hist = [sid |-> 0, rowsM |-> 0, rowsE |-> 0, dup |-> FALSE, passed |-> FALSE,
               champions |-> {}, strategies |-> {}, pendC |-> {}, pendS |-> {},
               nMaster |-> 0, nEvent |-> 0, nSheets |-> 0, nEdits |-> 0, nWrites |-> 0]
    /\ other = IdleOther

\* a step of import_snapshot on a file whose name, sheets and rows are among in
ImportStep(in) ==
    \/ \E f \in in.filenames, wb \in in.workbooks : ImportStart(f, wb)
    \/ ImportCheckDuplicate
    \/ \E t \in Times : ImportInsertSnapshot(t)
    \/ \E row \in in.master_rows : ImportMasterRow(row)
    \/ ImportMasterEnd
    \/ \E n \in in.sheet_names, h \in in.event_headers : ImportSheet(n, h)
    \/ \E row \in in.event_rows : ImportEventRow(row)
    \/ ImportSheetEnd
    \/ ImportCommit
    \/ ImportExcept

EditStep ==
    \/ \E sid \in SnapshotIdArgs, pid \in ProjectIdArgs, form \in ProjectForms :
          UpdateProjectFetch(sid, pid, form)
    \/ UpdateProjectWrite
    \/ \E t \in Times : UpdateProjectAudit(t)
    \/ \E sid \in SnapshotIdArgs, m \in MonthArgs, pid \in ProjectIdArgs, form \in EventForms :
          UpdateEventFetch(sid, m, pid, form)
    \/ UpdateEventWrite
    \/ \E t \in Times : UpdateEventAudit(t)

\* imports, with a reader on another connection
Next ==
    \/ ImportStep(AllInputs)
    \/ ReadSnapshot

Spec == Init /\ [][Next]_vars

\* imports of workbooks whose event rows carry every pair of flag cells
NextFlags == ImportStep(FlagInputs)

SpecFlags == Init /\ [][NextFlags]_vars

\* calls of record_audit on every choice of supplied mappings
NextAudit ==
    \E entity_type \in {"project", "event"}, action \in AuditActions,
       before \in AuditMappings, after \in AuditMappings, t \in Times :
        RecordAudit(1, entity_type, P1, action, before, after, t)

SpecAudit == Init /\ [][NextAudit]_vars

\* imports of the metrics workbooks and edits of project P1 and of its event
\* of the first month, in snapshot 1
MetricsEditStep ==
    \/ \E form \in MetricsProjectForms : UpdateProjectFetch(1, P1, form)
    \/ UpdateProjectWrite
    \/ \E t \in Times : UpdateProjectAudit(t)
    \/ \E form \in MetricsEventForms : UpdateEventFetch(1, Month1, P1, form)
    \/ UpdateEventWrite
    \/ \E t \in Times : UpdateEventAudit(t)

NextMetrics ==
    \/ ImportStep(MetricsInputs)
    \/ MetricsEditStep

SpecMetrics == Init /\ [][NextMetrics]_vars

\* imports of workbooks whose event rows name a champion, or none
NextChampions == ImportStep(ChampionInputs)

SpecChampions == Init /\ [][NextChampions]_vars

\* two imports of files of one date, each on its own connection
NextConcurrentImports ==
    \/ ImportStep([ChampionInputs EXCEPT !.filenames = {File1}])
    \/ ImportInsertBusy
    \/ Switch

SpecConcurrentImports == Init /\ [][NextConcurrentImports]_vars

\* the store holds an imported snapshot of three projects and three events
InitStores ==
    /\ db \in BoardStores
    /\ tx = db
    /\ imp = IdleFrame
    /\ ed = IdleEdit
    /\ ret = NoReturn
    /\ seen = NothingSeen
    /\ hist = [sid |-> 0, rowsM |-> 0, rowsE |-> 0, dup |-> FALSE, passed |-> FALSE,
               champions |-> {}, strategies |-> {}, pendC |-> {}, pendS |-> {},
               nMaster |-> 0, nEvent |-> 0, nSheets |-> 0, nEdits |-> 0, nWrites |-> 0]
    /\ other = IdleOther

\* edits of a store of three projects and three events, which the metrics read
SpecStores == InitStores /\ [][MetricsEditStep]_vars

\* two edit requests, each on its own connection, on a store of three
\* projects and three events, each event with both flags and its project's
\* champion
InitEdits ==
    /\ InitStores
    /\ \A e \in db.project_monthly_events :
          /\ e.is_new_proposal = 1
          /\ e.is_approved = 1
          /\ \E p \in db.projects : p.project_id = e.project_id /\ p.champion_id = e.champion_id

NextConcurrentEdits ==
    \/ EditStep
    \/ Switch

SpecConcurrentEdits == InitEdits /\ [][NextConcurrentEdits]_vars

\* imports and CRUD edits
NextEdited ==
    \/ ImportStep(EditedInputs)
    \/ EditStep

SpecEdited == Init /\ [][NextEdited]_vars

---------------------------------------------------------------------------
(* The properties.                                                         *)

\* C1: when the processing of the month sheets ends the import with a fatal
\* error (a month sheet without a required column, an event row whose project
\* id is not among the projects of this import), the call returns a failure
\* report and the store holds no snapshot of the file's date and no project or
\* event row under the id the import wrote with, whatever it had inserted.
C1_SheetFatalLeavesNothing ==
    [][(imp.pc \in {"sheets", "events"} /\ imp'.pc = "idle" /\ ~ret'.success)
         => /\ ret'.how = "returned"
            /\ SnapshotIdsByDate(db', imp.snapshot_date) = {}
            /\ \A p \in db'.projects : p.snapshot_id # imp.snapshot_id
            /\ \A e \in db'.project_monthly_events : e.snapshot_id # imp.snapshot_id
            /\ tx' = db']_vars

\* an import that had written a project and an event has failed on an unknown
\* project id
C1_Witness ==
    /\ ret.how = "returned"
    /\ ~ret.success
    /\ ret.errors[1][1] = "Unknown project_id"
    /\ ret.processed_projects > 0
    /\ ret.processed_events > 0

\* C2: import_snapshot is all-or-nothing over the six tables: no step of a call
\* that is in progress changes the committed store, a call that returns a
\* failure leaves it as it was, and a call that returns success has committed
\* exactly one new snapshot row, of the file's date.
C2_AllOrNothing ==
    [][/\ (imp.pc # "idle" /\ imp'.pc # "idle") => db' = db
       /\ (imp'.pc = "idle" /\ ~ret'.success) => (db' = db /\ tx' = db')
       /\ (imp.pc # "idle" /\ imp'.pc = "idle" /\ ret'.success)
            => /\ Len(db'.snapshots) = Len(db.snapshots) + 1
               /\ SubSeq(db'.snapshots, 1, Len(db.snapshots)) = db.snapshots
               /\ db'.snapshots[Len(db'.snapshots)].snapshot_date = imp.snapshot_date]_vars

\* a failed import had created a champion that the store does not hold
C2_Witness ==
    /\ ret.how = "returned"
    /\ ~ret.success
    /\ hist.pendC # {}
    /\ \A i \in DOMAIN db.champions : db.champions[i].name \notin hist.pendC

\* C3, as stated: an import of a file whose date is already stored returns the
\* duplicate-date failure whatever the workbook holds, and leaves the store
\* unchanged.
C3_AlwaysDuplicateSnapshot ==
    [][(hist'.dup /\ imp'.pc = "idle" /\ ret'.how # "none")
         => /\ ret'.how = "returned"
            /\ ~ret'.success
            /\ ret'.errors = <<<<"Duplicate snapshot date">>>>
            /\ db' = db]_vars

\* C3, amended: an import of a file whose date is already stored never
\* succeeds, never gets as far as the INSERT and leaves the store unchanged;
\* the failure is the duplicate-date one when the workbook passes the checks
\* that come before the duplicate check, and the failure of the first of those
\* checks it does not pass otherwise.
C3_DuplicateAfterChecks ==
    [][/\ hist'.dup => imp'.pc \in {"idle", "connected"}
       /\ (hist'.dup /\ imp'.pc = "idle" /\ ret'.how # "none")
            => /\ ~ret'.success
               /\ db' = db
               /\ hist'.passed <=> (/\ ret'.how = "returned"
                                    /\ ret'.errors = <<<<"Duplicate snapshot date">>>>)]_vars

\* a well-formed workbook of an already stored date was rejected as a duplicate
C3_Witness ==
    /\ hist.dup
    /\ hist.passed
    /\ ret.how = "returned"
    /\ ret.errors = <<<<"Duplicate snapshot date">>>>
    /\ Len(db.snapshots) = 1

\* C4: a reader on another connection sees none of the rows of an import that
\* is in progress; when it sees any of them the import has committed, and it
\* sees the snapshot row together with all the projects and events the import
\* wrote.
C4_ReaderSeesNoneOrAll ==
    /\ InProgress => (~seen.snapshot /\ seen.projects = {} /\ seen.events = {})
    /\ (seen.snapshot \/ seen.projects # {} \/ seen.events # {})
         => /\ ret.how = "returned"
            /\ ret.success
            /\ seen.snapshot
            /\ Cardinality(seen.projects) = ret.processed_projects
            /\ Cardinality(seen.events) = ret.processed_events

\* a reader has read while the import held uncommitted projects and events
C4_Witness ==
    /\ seen.read
    /\ imp.pc = "events"
    /\ imp.processed_projects > 0
    /\ imp.processed_events > 0

\* C5: import_snapshot never raises to its caller; its report has success
\* exactly when its errors list is empty, and a failure report carries exactly
\* one error tag.
C5_NeverRaises ==
    /\ ret.how # "raised"
    /\ ret.how = "returned"
         => /\ ret.success <=> ret.errors = <<>>
            /\ ~ret.success => Len(ret.errors) = 1

\* C6: every event row, committed or pending, has a project row of the same
\* snapshot_id and project_id.
C6_EventsHaveProjects ==
    \A st \in {db, tx} :
        \A e \in st.project_monthly_events :
            ProjectRows(st, e.snapshot_id, e.project_id) # {}

\* an imported event has been edited
C6_Witness ==
    \E e \in db.project_monthly_events :
        /\ e.note = Some(<<"n">>)
        /\ Len(db.audit_logs) > 0

\* C7: no project row, committed or pending, has an empty current_status; the
\* master rows of these workbooks all have a blank status cell (no value, or
\* text without a character), and the project rows an import in progress has
\* written have the default status.
C7_StatusNeverEmpty ==
    /\ \A st \in {db, tx} : \A p \in st.projects : p.current_status # <<>>
    /\ InTransaction
         => \A p \in tx.projects :
                p.snapshot_id = imp.snapshot_id => p.current_status = DEFAULT_STATUS

\* the store holds a project imported with a blank status and a project whose
\* status an edit has set
C7_Witness ==
    /\ \E p \in db.projects : p.current_status = DEFAULT_STATUS /\ p.project_name = <<>>
    /\ \E p \in db.projects : p.current_status = <<" ">>

\* C8: no step changes or removes a committed snapshot row, and the snapshot
\* rows grow by one, at the commit of a successful import, and at no other step.
C8_SnapshotsImmutable ==
    [][/\ Len(db'.snapshots) =
            Len(db.snapshots)
              + (IF imp.pc = "sheets" /\ imp'.pc = "idle" /\ ret'.success THEN 1 ELSE 0)
       /\ SubSeq(db'.snapshots, 1, Len(db.snapshots)) = db.snapshots]_vars

\* two snapshots are stored and two edits were audited
C8_Witness ==
    /\ Len(db.snapshots) = 2
    /\ Len(db.audit_logs) = 2

C10_GetOrCreateIdempotent ==
    LET names(rows) == {rows[i].name : i \in DOMAIN rows}
        spellings == {<<>>, <<" ">>, <<"A">>, <<" ", "A", " ">>, <<"A", " ">>, <<"B">>}
    IN  /\ \A st \in {db, tx} :
              \A rows \in {st.champions, st.strategy_categories} :
                  /\ \A i \in DOMAIN rows :
                         rows[i].name # <<>> /\ Strip(rows[i].name) = rows[i].name
                  /\ Cardinality(names(rows)) = Len(rows)
        /\ names(db.champions) = hist.champions
        /\ names(db.strategy_categories) = hist.strategies
        /\ \A name \in spellings :
              LET r == get_champion_id(tx, name)
              IN  /\ Strip(name) = <<>> => (r.id = NULL /\ r.st = tx)
                  /\ \A again \in spellings :
                         Strip(again) = Strip(name)
                           => get_champion_id(r.st, again) = [st |-> r.st, id |-> r.id]

\* one import has resolved "A", " A" and "A " of two master rows and an event
\* row to one champion row, and a strategy of one space to no reference
C10_Witness ==
    /\ Len(db.champions) = 1
    /\ Cardinality({p \in db.projects : p.champion_id = Some(1)}) = 2
    /\ \E p \in db.projects : p.strategy_id = NULL
    /\ \E e \in db.project_monthly_events : e.champion_id = Some(1)

C12_EditAndAuditAtomic == Len(db.audit_logs) = hist.nWrites

\* C13 as stated: for every call of record_audit, whether before, after or
\* both are supplied, the row's changed_fields is the sorted union of the
\* keys of the supplied mappings, and before_json / after_json are null
\* exactly when the corresponding mapping is absent.
C13_ChangedFieldsAlwaysUnion ==
    [][\A entity_type \in {"project", "event"}, action \in AuditActions,
          before \in AuditMappings, after \in AuditMappings, t \in Times :
          RecordAudit(1, entity_type, P1, action, before, after, t) =>
            LET row == db'.audit_logs[Len(db'.audit_logs)]
                keys == (IF before = NULL THEN {} ELSE Keys(before[1]))
                          \cup (IF after = NULL THEN {} ELSE Keys(after[1]))
                pos(k) == CHOOSE i \in DOMAIN ColumnOrder : ColumnOrder[i] = k
            IN  /\ row.changed_fields # NULL
                /\ Range(row.changed_fields[1]) = keys
                /\ \A i, j \in DOMAIN row.changed_fields[1] :
                      i < j => pos(row.changed_fields[1][i]) < pos(row.changed_fields[1][j])
                /\ (row.before_json = NULL) <=> (before = NULL)
                /\ (row.after_json = NULL) <=> (after = NULL)]_vars

\* C13, amended: changed_fields is the sorted union of both mappings' keys
\* (keys of unchanged values included) when before and after are both
\* supplied, and null when either is absent; before_json / after_json are
\* null exactly when the corresponding mapping is absent.
C13_ChangedFieldsWhenBoth ==
    [][\A entity_type \in {"project", "event"}, action \in AuditActions,
          before \in AuditMappings, after \in AuditMappings, t \in Times :
          RecordAudit(1, entity_type, P1, action, before, after, t) =>
            LET row == db'.audit_logs[Len(db'.audit_logs)]
                pos(k) == CHOOSE i \in DOMAIN ColumnOrder : ColumnOrder[i] = k
            IN  /\ Len(db'.audit_logs) = Len(db.audit_logs) + 1
                /\ (before = NULL \/ after = NULL) => row.changed_fields = NULL
                /\ (before # NULL /\ after # NULL) =>
                      /\ row.changed_fields # NULL
                      /\ Range(row.changed_fields[1]) = Keys(before[1]) \cup Keys(after[1])
                      /\ \A i, j \in DOMAIN row.changed_fields[1] :
                            i < j => pos(row.changed_fields[1][i]) < pos(row.changed_fields[1][j])
                /\ (row.before_json = NULL) <=> (before = NULL)
                /\ (row.after_json = NULL) <=> (after = NULL)]_vars

\* record_audit has written a row for a call with only the after mapping, and
\* a row for a call with both mappings of different keys
C13_Witness ==
    /\ Len(db.audit_logs) = 2
    /\ db.audit_logs[1].before_json = NULL
    /\ db.audit_logs[1].after_json # NULL
    /\ db.audit_logs[1].changed_fields = NULL
    /\ db.audit_logs[2].before_json # NULL
    /\ db.audit_logs[2].after_json # NULL
    /\ db.audit_logs[2].before_json # db.audit_logs[2].after_json
    /\ db.audit_logs[2].changed_fields =
          Some(<<"champion_id", "is_approved", "note", "project_name">>)

\* C14: the audit log is append-only.  No step of an import or an edit
\* changes or removes a committed AuditLog row; the step that completes an
\* update_project or update_event request appends exactly one row, of action
\* UPDATE and of the edited entity, also when the posted values equal the
\* stored ones, and no other step appends; a request for a project or event
\* that does not exist leaves the whole store as it was.
C14_AuditAppendOnly ==
    [][LET n == Len(db.audit_logs)
           completes == ed.pc \in {"project_audit", "event_audit"} /\ ed'.pc = "idle"
           notFound == ed.pc = "idle" /\ ed'.pc = "idle" /\ hist'.nEdits = hist.nEdits + 1
       IN  /\ Len(db'.audit_logs) >= n
           /\ SubSeq(db'.audit_logs, 1, n) = db.audit_logs
           /\ completes =>
                /\ Len(db'.audit_logs) = n + 1
                /\ db'.audit_logs[n + 1].action = "UPDATE"
                /\ db'.audit_logs[n + 1].snapshot_id = ed.snapshot_id
                /\ db'.audit_logs[n + 1].entity_type =
                      (IF ed.pc = "project_audit" THEN "project" ELSE "event")
                /\ [db' EXCEPT !.audit_logs = db.audit_logs] = db
           /\ ~completes => db'.audit_logs = db.audit_logs
           /\ notFound => db' = db]_vars

\* two edits have completed, the second posting the values the first stored:
\* its row has equal before and after states
C14_Witness ==
    /\ ed.pc = "idle"
    /\ hist.nWrites = 2
    /\ Len(db.audit_logs) = 2
    /\ db.audit_logs[2].action = "UPDATE"
    /\ db.audit_logs[2].before_json = db.audit_logs[2].after_json
    /\ db.audit_logs[1].before_json # db.audit_logs[1].after_json

\* C15: for every snapshot and month argument compute_kpis divides by no
\* zero, and returns proposal_inflow_rate 0 when the month has no approval
\* event, expansion_rate 0 when the month is the first available month of the
\* snapshot or no approval event lies in or before the previous available
\* month, and champion_participation_rate 0 when no project of the snapshot
\* has a champion.
C15_RatesGuarded ==
    \A sid \in 1..(Len(db.snapshots) + 1), m \in MetricsMonthArgs :
        LET k == compute_kpis(db, sid, m)
            ev == {e \in db.project_monthly_events : e.snapshot_id = sid}
            available == {e.month_key : e \in ev}
            earlier == {x \in available : StrLess(x, m)}
            first == m \in available /\ earlier = {}
            prev == CHOOSE x \in earlier : \A y \in earlier : StrLeq(y, x)
            prevEmpty == /\ m \in available
                         /\ earlier # {}
                         /\ ~\E e \in ev : StrLeq(e.month_key, prev) /\ e.is_approved = 1
        IN  /\ ~k.raised
            /\ (~\E e \in ev : e.month_key = m /\ e.is_approved = 1)
                  => k.proposal_inflow_rate = 0
            /\ (first \/ prevEmpty) => k.expansion_rate = 0
            /\ (\A p \in db.projects : p.snapshot_id = sid => p.champion_id = NULL)
                  => k.champion_participation_rate = 0

\* in a snapshot the first month holds a proposal and no approval, and the
\* month after it the first approval; another snapshot has no project with a
\* champion
C15_Witness ==
    /\ \E sid \in DOMAIN db.snapshots, m \in MetricsMonthArgs :
          LET k == compute_kpis(db, sid, m)
          IN  k.month_proposals > 0 /\ k.month_approvals = 0 /\ k.prev_month = NULL
    /\ \E sid \in DOMAIN db.snapshots, m \in MetricsMonthArgs :
          LET k == compute_kpis(db, sid, m)
          IN  k.prev_month # NULL /\ k.prev_cumulative_approved = 0
                /\ k.cumulative_approved > 0
    /\ \E sid \in DOMAIN db.snapshots :
          \A p \in db.projects : p.snapshot_id = sid => p.champion_id = NULL

\* C16: each of the three lists of compute_ranking is ordered by descending
\* count and, among equal counts, by ascending champion name (no name counting
\* as the empty one); it has one entry per champion id that the counted rows
\* carry, and the rows without champion are one entry labelled with the
\* unassigned label and their count.  The lists are a function of the store
\* and the arguments.
C16_RankingOrdered ==
    \A sid \in DOMAIN db.snapshots, m \in MetricsMonthArgs :
        LET r == compute_ranking(db, sid, m)
            ev == {e \in db.project_monthly_events : e.snapshot_id = sid /\ e.month_key = m}
            ordered(L) ==
                \A i, j \in DOMAIN L :
                    i < j => \/ L[i][2] > L[j][2]
                             \/ /\ L[i][2] = L[j][2]
                                /\ StrLeq(IF L[i][1] = NULL THEN <<>> ELSE L[i][1][1],
                                          IF L[j][1] = NULL THEN <<>> ELSE L[j][1][1])
            labelled(L, rows) ==
                /\ Len(L) = Cardinality({x.champion_id : x \in rows})
                /\ \A i \in DOMAIN L : L[i][2] > 0
                /\ LET n == Cardinality({x \in rows : x.champion_id = NULL})
                   IN  n > 0 => \E i \in DOMAIN L : L[i] = <<Some(UNASSIGNED), n>>
        IN  /\ ordered(r.proposal_ranking)
            /\ ordered(r.approval_ranking)
            /\ ordered(r.active_ranking)
            /\ labelled(r.proposal_ranking, {e \in ev : e.is_new_proposal = 1})
            /\ labelled(r.approval_ranking, {e \in ev : e.is_approved = 1})
            /\ labelled(r.active_ranking,
                        {p \in db.projects :
                            p.snapshot_id = sid /\ p.current_status = ACTIVE_STATUS})

\* in the first month the proposal list holds champion A with two events
\* before the unassigned with one, the approval list the unassigned before A
\* with one event each, and the active list A before B, whose id is the lower
C16_Witness ==
    LET r == compute_ranking(db, 1, Month1)
    IN  /\ r.proposal_ranking = <<<<Some(<<"A">>), 2>>, <<Some(UNASSIGNED), 1>>>>
        /\ r.approval_ranking = <<<<Some(UNASSIGNED), 1>>, <<Some(<<"A">>), 1>>>>
        /\ r.active_ranking = <<<<Some(<<"A">>), 1>>, <<Some(<<"B">>), 1>>>>
        /\ \E e \in db.project_monthly_events : e.champion_id = NULL /\ e.is_new_proposal = 1
        /\ db.champions[1].name = <<"B">>

\* C17: for every snapshot and month compute_distribution returns a list
\* with one row for every StrategyCategory row of the store, of whichever
\* snapshot, and one for the unassigned label, each with the proposal,
\* approval and active counts of the snapshot's projects of that strategy
\* ((0, 0, 0) where nothing matches), sorted by ascending name.
C17_DistributionComplete ==
    \A sid \in DOMAIN db.snapshots, m \in MetricsMonthArgs :
        LET d == compute_distribution(db, sid, m)
            L == d.result
            projects(k) == {p \in db.projects : p.snapshot_id = sid /\ p.strategy_id = k}
            events(k, flag) ==
                {e \in db.project_monthly_events :
                    /\ e.snapshot_id = sid /\ e.month_key = m /\ e[flag] = 1
                    /\ \E p \in projects(k) : p.project_id = e.project_id}
            row(k, n) == <<n, Cardinality(events(k, "is_new_proposal")),
                           Cardinality(events(k, "is_approved")),
                           Cardinality({p \in projects(k) :
                                           p.current_status = ACTIVE_STATUS})>>
        IN  /\ ~d.raised
            /\ Len(L) = Len(db.strategy_categories) + 1
            /\ \A i \in DOMAIN db.strategy_categories :
                  \E j \in DOMAIN L : L[j] = row(Some(i), db.strategy_categories[i].name)
            /\ \E j \in DOMAIN L : L[j] = row(NULL, UNASSIGNED)
            /\ \A i, j \in DOMAIN L : i < j => StrLeq(L[i][1], L[j][1])

\* C18: for a snapshot without events every metrics function returns a
\* result: get_snapshot_months the empty list, compute_monthly_trend three
\* empty lists, compute_kpis 0 for every count and rate whatever the month
\* argument, compute_ranking empty proposal and approval lists, and
\* compute_distribution rows whose proposal and approval counts are 0.
C18_EmptySnapshot ==
    \A sid \in DOMAIN db.snapshots :
        (\A e \in db.project_monthly_events : e.snapshot_id # sid) =>
            /\ get_snapshot_months(db, sid) = <<>>
            /\ compute_monthly_trend(db, sid) =
                  [months |-> <<>>, proposals |-> <<>>, approvals |-> <<>>]
            /\ \A m \in MetricsMonthArgs :
                  LET k == compute_kpis(db, sid, m)
                      r == compute_ranking(db, sid, m)
                      d == compute_distribution(db, sid, m)
                  IN  /\ ~k.raised
                      /\ k.month_proposals = 0
                      /\ k.month_approvals = 0
                      /\ k.cumulative_approved = 0
                      /\ k.champion_participation_rate = 0
                      /\ k.expansion_rate = 0
                      /\ k.proposal_inflow_rate = 0
                      /\ r.proposal_ranking = <<>>
                      /\ r.approval_ranking = <<>>
                      /\ ~d.raised
                      /\ d.result # <<>>
                      /\ \A i \in DOMAIN d.result :
                            d.result[i][2] = 0 /\ d.result[i][3] = 0

\* C19: compute_heatmap returns, for every champion of the store and for
\* the unassigned label, an entry for every month key of the snapshot's
\* events, holding the number of proposal events and of approval events of
\* that champion (of no champion, for the label) in that month within the
\* snapshot, (0, 0) where there are none.
C19_HeatmapCounts ==
    \A sid \in DOMAIN db.snapshots :
        LET h == compute_heatmap(db, sid)
            ev == {e \in db.project_monthly_events : e.snapshot_id = sid}
            months == {e.month_key : e \in ev}
            counts(cid, m) ==
                [proposals |-> Cardinality({e \in ev : e.month_key = m /\ e.champion_id = cid
                                                        /\ e.is_new_proposal = 1}),
                 approvals |-> Cardinality({e \in ev : e.month_key = m /\ e.champion_id = cid
                                                        /\ e.is_approved = 1})]
        IN  /\ UNASSIGNED \in DOMAIN h
            /\ DOMAIN h[UNASSIGNED] = months
            /\ \A m \in months : h[UNASSIGNED][m] = counts(NULL, m)
            /\ \A i \in DOMAIN db.champions :
                  /\ db.champions[i].name \in DOMAIN h
                  /\ DOMAIN h[db.champions[i].name] = months
                  /\ \A m \in months : h[db.champions[i].name][m] = counts(Some(i), m)

\* C20: for every snapshot and every month m among its available months,
\* compute_kpis reports as cumulative_approved the number of distinct projects
\* with an approval event in a month key <= m, and as expansion_rate the
\* quotient of cumulative_approved(m) by cumulative_approved(p), p being the
\* available month just before m (the quotient to the four decimals the
\* function rounds to), or 0 when there is no p or cumulative_approved(p) is 0.
C20_CumulativeAndExpansion ==
    \A sid \in DOMAIN db.snapshots :
        LET ev == {e \in db.project_monthly_events : e.snapshot_id = sid}
            available == {e.month_key : e \in ev}
            approved(m) == {e.project_id : e \in {x \in ev : x.is_approved = 1
                                                    /\ (x.month_key = m \/ StrLess(x.month_key, m))}}
        IN  \A m \in available :
                LET k == compute_kpis(db, sid, m)
                    earlier == {x \in available : StrLess(x, m)}
                    p == CHOOSE x \in earlier : \A y \in earlier : y = x \/ StrLess(y, x)
                    cm == Cardinality(approved(m))
                    cp == Cardinality(approved(p))
                    diff == k.expansion_rate * cp - 10000 * cm
                IN  /\ k.cumulative_approved = cm
                    /\ earlier = {} => k.expansion_rate = 0
                    /\ (earlier # {} /\ cp = 0) => k.expansion_rate = 0
                    /\ (earlier # {} /\ cp # 0) => (2 * diff <= cp /\ 0 - 2 * diff <= cp)

\* a snapshot holds approval events of one project in two months: the second
\* month counts the project once and its expansion rate is 1
C20_Witness ==
    \E sid \in DOMAIN db.snapshots :
        /\ \E e1, e2 \in db.project_monthly_events :
              /\ e1.snapshot_id = sid /\ e2.snapshot_id = sid
              /\ e1.month_key = Month1 /\ e2.month_key = Month2
              /\ e1.project_id = e2.project_id
              /\ e1.is_approved = 1 /\ e2.is_approved = 1
        /\ compute_kpis(db, sid, Month2).cumulative_approved = 1
        /\ compute_kpis(db, sid, Month2).prev_cumulative_approved = 1
        /\ compute_kpis(db, sid, Month2).expansion_rate = 10000

\* C21: every step that stores the event of a month-sheet row stores it with
\* the champion whose name is the row's champion cell, trimmed (the existing
\* champion row of that name, or one the step creates), when the cell is not
\* blank, and otherwise, without creating a champion, with the champion the
\* row's project got from its AX_Master row in this import, which may be none.
C21_EventChampion ==
    [][\A row \in ChampionInputs.event_rows :
          (ImportEventRow(row) /\ imp'.processed_events = imp.processed_events + 1) =>
            LET e == CHOOSE x \in tx'.project_monthly_events \ tx.project_monthly_events : TRUE
                p == CHOOSE q \in tx.projects :
                        q.snapshot_id = imp.snapshot_id /\ q.project_id = e.project_id
                text == IF row.champion.k = "str" THEN row.champion.s ELSE <<>>
                name == SelectSeq(text, LAMBDA ch : ch \notin {" ", "\t", "\n"})
                known == {i \in DOMAIN tx.champions : tx.champions[i].name = name}
            IN  /\ e.project_id = Str(row.project_id)
                /\ name = <<>> => (e.champion_id = p.champion_id /\ tx'.champions = tx.champions)
                /\ (name # <<>> /\ known # {})
                      => (e.champion_id = Some(CHOOSE i \in known : TRUE)
                            /\ tx'.champions = tx.champions)
                /\ (name # <<>> /\ known = {})
                      => /\ e.champion_id = Some(Len(tx.champions) + 1)
                         /\ Len(tx'.champions) = Len(tx.champions) + 1
                         /\ tx'.champions[Len(tx'.champions)].name = name]_vars

\* an import has committed an event of P1 under the new champion B, which is
\* not the project's, an event of P1 under the project's champion A for a
\* cell of one space, and project 2 has an event without champion
C21_Witness ==
    /\ ret.how = "returned"
    /\ ret.success
    /\ Len(db.champions) = 2
    /\ db.champions[2].name = <<"B">>
    /\ \E e \in db.project_monthly_events :
          e.project_id = P1 /\ e.month_key = Month1 /\ e.champion_id = Some(2)
    /\ \E e \in db.project_monthly_events :
          e.project_id = P1 /\ e.month_key = Month2 /\ e.champion_id = Some(1)
    /\ \E p \in db.projects : p.project_id = P1 /\ p.champion_id = Some(1)

\* C22: the non-fatal conditions do not end an import.  A step that reads a
\* master row or an event row whose project id cell is empty, and a step that
\* visits a sheet named neither AX_Master nor like a month, whatever its
\* header row, adds one warning and changes nothing else: the call stays in
\* its loop, with its pending writes and its counts as they were; and the
\* report of a call that succeeds carries the warnings of its skips and
\* commits what the other rows wrote.
C22_NonFatalSkips ==
    [][LET empty(c) == c \in {NoneCell, StrCell(<<>>)}
           skipped == [imp EXCEPT !.warnings = imp'.warnings, !.sheets = imp'.sheets]
           warned == /\ Len(imp'.warnings) = Len(imp.warnings) + 1
                     /\ SubSeq(imp'.warnings, 1, Len(imp.warnings)) = imp.warnings
                     /\ imp' = skipped
                     /\ tx' = tx /\ db' = db /\ ret' = ret
       IN  /\ \A row \in AllInputs.master_rows :
                 (ImportMasterRow(row) /\ ~AllNone(row) /\ empty(row.project_id))
                   => (warned /\ imp'.sheets = imp.sheets)
           /\ \A row \in AllInputs.event_rows :
                 (ImportEventRow(row) /\ ~AllNone(row) /\ empty(row.project_id))
                   => (warned /\ imp'.sheets = imp.sheets)
           /\ \A h \in AllInputs.event_headers :
                 ImportSheet(SheetNotes, h) => (warned /\ imp'.sheets = imp.sheets \cup {SheetNotes})
           /\ (imp.pc = "sheets" /\ imp'.pc = "idle" /\ ret'.success)
                 => /\ ret'.warnings = imp.warnings
                    /\ db' = tx]_vars

\* an import that skipped a master row, a sheet and an event row has
\* succeeded with three warnings, a project and an event
C22_Witness ==
    /\ ret.how = "returned"
    /\ ret.success
    /\ Len(ret.warnings) = 3
    /\ "Blank project_id in AX_Master" \in Range(ret.warnings)
    /\ "Sheet ignored due to invalid name" \in Range(ret.warnings)
    /\ "Blank project_id in sheet" \in Range(ret.warnings)
    /\ ret.processed_projects = 1
    /\ ret.processed_events = 1
    /\ Cardinality(db.project_monthly_events) = 1

\* C23: in every state, of every interleaving of two imports of files of
\* one date on two connections, the committed store and each connection's view
\* hold at most one snapshot row per date, and at most one of the two imports
\* has returned success.
C23_OneSnapshotPerDate ==
    /\ \A st \in {db, tx, other.tx} :
          \A i, j \in DOMAIN st.snapshots :
              st.snapshots[i].snapshot_date = st.snapshots[j].snapshot_date => i = j
    /\ ~(ret.how = "returned" /\ ret.success
           /\ other.ret.how = "returned" /\ other.ret.success)

\* both imports had passed the duplicate check before either wrote: one has
\* committed its snapshot, with a project and an event, and the INSERT of the
\* other has failed on the date, which its handler is about to report
C23_Witness ==
    /\ imp.pc = "except"
    /\ imp.snapshot_id = 0
    /\ SnapshotIdsByDate(db, imp.snapshot_date) # {}
    /\ other.ret.how = "returned"
    /\ other.ret.success
    /\ other.ret.processed_projects > 0
    /\ other.ret.processed_events > 0
    /\ Len(db.snapshots) = 1

\* C24: a project id listed a second time in AX_Master, or a second time in
\* one month sheet, ends the import: the row is not written and the call goes
\* to its handler, which returns the catch-all failure and leaves the committed
\* store and the connection's view as they were before the call; an event row
\* of a project listed in AX_Master and not yet listed in its sheet is written.
\* (snapshot_id, project_id) identifies one project row and (snapshot_id,
\* month_key, project_id) one event row, in the committed store and in the
\* connection's view.
C24_DuplicateIdRejected ==
    [][LET unique(st) ==
               /\ \A p, q \in st.projects :
                     (p.snapshot_id = q.snapshot_id /\ p.project_id = q.project_id) => p = q
               /\ \A e, f \in st.project_monthly_events :
                     (e.snapshot_id = f.snapshot_id /\ e.month_key = f.month_key
                        /\ e.project_id = f.project_id) => e = f
           listedM(row) == \E p \in tx.projects :
                              /\ p.snapshot_id = imp.snapshot_id
                              /\ p.project_id = Str(row.project_id)
           listedE(row) == \E e \in tx.project_monthly_events :
                              /\ e.snapshot_id = imp.snapshot_id
                              /\ e.month_key = imp.month_key
                              /\ e.project_id = Str(row.project_id)
       IN  /\ unique(db') /\ unique(tx')
           /\ \A row \in AllInputs.master_rows :
                 (ImportMasterRow(row) /\ listedM(row))
                   => (imp'.pc = "except" /\ tx'.projects = tx.projects /\ db' = db)
           /\ \A row \in AllInputs.event_rows :
                 /\ (ImportEventRow(row) /\ listedE(row))
                      => /\ imp'.pc = "except"
                         /\ tx'.project_monthly_events = tx.project_monthly_events
                         /\ db' = db
                 /\ (ImportEventRow(row) /\ listedM(row) /\ ~listedE(row))
                      => /\ imp'.pc = "events"
                         /\ imp'.processed_events = imp.processed_events + 1
                         /\ Cardinality(tx'.project_monthly_events) =
                               Cardinality(tx.project_monthly_events) + 1
           /\ imp.pc = "except"
                 => /\ imp'.pc \in {"except", "idle"}
                    /\ db' = db
                    /\ imp'.pc = "idle"
                          => /\ tx' = db
                             /\ ret'.how = "returned"
                             /\ ~ret'.success
                             /\ ret'.errors = <<<<"Unhandled exception during import">>>>]_vars

\* an import that had written a project and an event of it has failed on the
\* second event row of that project in the sheet, and the store holds no row
\* of it
C24_Witness ==
    /\ ret.how = "returned"
    /\ ret.errors = <<<<"Unhandled exception during import">>>>
    /\ ret.processed_projects = 1
    /\ ret.processed_events = 1
    /\ hist.rowsE = 2
    /\ hist.sid \notin DOMAIN db.snapshots
    /\ \A p \in db.projects : p.snapshot_id # hist.sid
    /\ \A e \in db.project_monthly_events : e.snapshot_id # hist.sid

\* C25: in the committed store every project's champion_id and strategy_id
\* and every event's champion_id is null or the id of a champion or strategy
\* row, so that compute_distribution finds every strategy id it looks up and
\* compute_ranking a name for every champion id it counts.
C25_ReferencesResolve ==
    /\ \A p \in db.projects :
          /\ p.champion_id = NULL \/ p.champion_id[1] \in DOMAIN db.champions
          /\ p.strategy_id = NULL \/ p.strategy_id[1] \in DOMAIN db.strategy_categories
    /\ \A e \in db.project_monthly_events :
          e.champion_id = NULL \/ e.champion_id[1] \in DOMAIN db.champions
    /\ \A sid \in DOMAIN db.snapshots, m \in MetricsMonthArgs :
          LET r == compute_ranking(db, sid, m)
          IN  /\ ~compute_distribution(db, sid, m).raised
              /\ \A L \in {r.proposal_ranking, r.approval_ranking, r.active_ranking} :
                    \A i \in DOMAIN L : L[i][1] # NULL

\* C26: for every snapshot and month compute_kpis returns a
\* champion_participation_rate from 0 to 1 (0 to 10000 in units of 1/10000):
\* the distinct champions of the month's proposal and approval events are no
\* more than the distinct champions of the snapshot's projects.
C26_ParticipationAtMostOne ==
    \A sid \in DOMAIN db.snapshots, m \in MetricsMonthArgs :
        LET k == compute_kpis(db, sid, m)
            active == {e.champion_id :
                         e \in {x \in db.project_monthly_events :
                                  /\ x.snapshot_id = sid /\ x.month_key = m
                                  /\ (x.is_new_proposal = 1 \/ x.is_approved = 1)}} \ {NULL}
            total == {p.champion_id : p \in {x \in db.projects : x.snapshot_id = sid}} \ {NULL}
        IN  /\ k.champion_participation_rate >= 0
            /\ k.champion_participation_rate <= 10000
            /\ Cardinality(active) <= Cardinality(total)

\* C27: within a snapshot, cumulative_approved does not decrease from an
\* available month to a later one, is at most the sum of month_approvals over
\* the available months up to the selected one, and expansion_rate is 0 or at
\* least 1 (10000 in units of 1/10000) for every available month.
C27_CumulativeMonotone ==
    \A sid \in DOMAIN db.snapshots :
        LET available == {e.month_key : e \in {x \in db.project_monthly_events :
                                                  x.snapshot_id = sid}}
            k(m) == compute_kpis(db, sid, m)
            upTo(m, x) == IF x \in available /\ (x = m \/ StrLess(x, m))
                          THEN k(x).month_approvals ELSE 0
        IN  \A m \in available :
                /\ \A n \in available : StrLess(m, n)
                      => k(m).cumulative_approved <= k(n).cumulative_approved
                /\ k(m).cumulative_approved
                      <= upTo(m, Month1) + upTo(m, Month2) + upTo(m, Month3)
                /\ k(m).expansion_rate = 0 \/ k(m).expansion_rate >= 10000

\* a snapshot has one approved project in its first month and a second one
\* in the next: the cumulative count goes from 1 to 2 and the expansion rate
\* of the second month is 2
C27_Witness ==
    \E sid \in DOMAIN db.snapshots :
        /\ compute_kpis(db, sid, Month1).cumulative_approved = 1
        /\ compute_kpis(db, sid, Month1).expansion_rate = 0
        /\ compute_kpis(db, sid, Month2).cumulative_approved = 2
        /\ compute_kpis(db, sid, Month2).month_approvals = 1
        /\ compute_kpis(db, sid, Month2).expansion_rate = 20000

\* C28: the metrics agree.  For every snapshot and every available month m,
\* the month_proposals (and month_approvals) of compute_kpis is the sum of the
\* counts of compute_ranking's proposal (approval) list, the sum of the
\* proposal (approval) column of compute_distribution, the sum over all the
\* champions of compute_heatmap's cell for m, and the entry for m of
\* compute_monthly_trend.
C28_MetricsAgree ==
    \A sid \in DOMAIN db.snapshots :
        LET RECURSIVE SumCol(_, _)
            SumCol(L, c) == IF L = <<>> THEN 0 ELSE Head(L)[c] + SumCol(Tail(L), c)
            RECURSIVE SumOver(_, _, _)
            SumOver(f, N, x) ==
                IF N = {} THEN 0
                ELSE LET n == CHOOSE y \in N : TRUE
                     IN  f[n][x[1]][x[2]] + SumOver(f, N \ {n}, x)
            t == compute_monthly_trend(db, sid)
            h == compute_heatmap(db, sid)
        IN  \A i \in DOMAIN t.months :
                LET m == t.months[i]
                    k == compute_kpis(db, sid, m)
                    r == compute_ranking(db, sid, m)
                    d == compute_distribution(db, sid, m)
                IN  /\ ~d.raised
                    /\ k.month_proposals = SumCol(r.proposal_ranking, 2)
                    /\ k.month_approvals = SumCol(r.approval_ranking, 2)
                    /\ k.month_proposals = SumCol(d.result, 2)
                    /\ k.month_approvals = SumCol(d.result, 3)
                    /\ k.month_proposals = SumOver(h, DOMAIN h, <<m, "proposals">>)
                    /\ k.month_approvals = SumOver(h, DOMAIN h, <<m, "approvals">>)
                    /\ k.month_proposals = t.proposals[i]
                    /\ k.month_approvals = t.approvals[i]

\* C29: for every audit row that update_project or update_event writes,
\* before_json is the state the row had just before the request's own UPDATE
\* and after_json the state that UPDATE wrote, also when two requests for one
\* project or event interleave; so of two consecutive audit rows of one
\* entity the later one's before_json is the earlier one's after_json.
C29_AuditBeforeAfter ==
    [][LET stored == IF ed.pc \in {"project_update", "project_audit"}
                     THEN ProjectDict(CHOOSE p \in db.projects :
                                         /\ p.snapshot_id = ed.snapshot_id
                                         /\ p.project_id = ed.project_id)
                     ELSE EventDict(CHOOSE e \in db.project_monthly_events :
                                       /\ e.snapshot_id = ed.snapshot_id
                                       /\ e.month_key = ed.month
                                       /\ e.project_id = ed.project_id)
           id(x) == IF x = Some(0) THEN NULL ELSE x
           flag(x) == IF x \in {NULL, Some(<<>>)} THEN 0 ELSE 1
           posted == IF ed.pc = "project_audit"
                     THEN <<<<"project_name", ed.form.project_name>>,
                            <<"champion_id", id(ed.form.champion_id)>>,
                            <<"strategy_id", id(ed.form.strategy_id)>>,
                            <<"org_unit", ed.form.org_unit>>,
                            <<"current_status", ed.form.current_status>>,
                            <<"proposed_month", ed.form.proposed_month>>,
                            <<"approved_month", ed.form.approved_month>>>>
                     ELSE <<<<"champion_id", id(ed.form.champion_id)>>,
                            <<"is_new_proposal", flag(ed.form.is_new_proposal)>>,
                            <<"is_approved", flag(ed.form.is_approved)>>,
                            <<"note", ed.form.note>>>>
           n == Len(db'.audit_logs)
           same(a, b) == /\ a.snapshot_id = b.snapshot_id
                         /\ a.entity_type = b.entity_type
                         /\ a.entity_key = b.entity_key
       IN  /\ (ed.pc \in {"project_update", "event_update"} /\ ed'.pc # ed.pc
                 /\ other' = other)
                 => ed.before = stored
           /\ (ed.pc \in {"project_audit", "event_audit"} /\ ed'.pc = "idle"
                 /\ other' = other)
                 => /\ db'.audit_logs[n].before_json = Some(JsonDumps(ed.before))
                    /\ db'.audit_logs[n].after_json = Some(JsonDumps(posted))
           /\ \A i, j \in DOMAIN db'.audit_logs :
                 (/\ i < j
                  /\ same(db'.audit_logs[i], db'.audit_logs[j])
                  /\ \A x \in (i + 1)..(j - 1) : ~same(db'.audit_logs[i], db'.audit_logs[x]))
                   => db'.audit_logs[j].before_json = db'.audit_logs[i].after_json]_vars

\* C30: the UPDATE of a project edit changes no row but the project row of
\* the request's (snapshot_id, project_id): the projects of other keys, the
\* same project id in other snapshots included, every event row, and the
\* snapshots, champions, strategy_categories and audit_logs tables stay as
\* they were, and the number of project rows stays; the UPDATE of an event
\* edit changes no row but the event row of the request's (snapshot_id, month,
\* project_id) and leaves every project row as it was; the audit step of
\* either appends one audit row and changes nothing else.
C30_EditFrame ==
    [][LET hit(p) == p.snapshot_id = ed.snapshot_id /\ p.project_id = ed.project_id
           hitE(e) == hit(e) /\ e.month_key = ed.month
           tables == {"snapshots", "champions", "strategy_categories", "audit_logs"}
       IN  /\ (ed.pc = "project_update" /\ ed'.pc = "project_audit")
                 => /\ {p \in db'.projects : ~hit(p)} = {p \in db.projects : ~hit(p)}
                    /\ Cardinality({p \in db'.projects : hit(p)}) = 1
                    /\ Cardinality(db'.projects) = Cardinality(db.projects)
                    /\ db'.project_monthly_events = db.project_monthly_events
                    /\ \A t \in tables : db'[t] = db[t]
           /\ (ed.pc = "event_update" /\ ed'.pc = "event_audit")
                 => /\ {e \in db'.project_monthly_events : ~hitE(e)} =
                          {e \in db.project_monthly_events : ~hitE(e)}
                    /\ Cardinality({e \in db'.project_monthly_events : hitE(e)}) = 1
                    /\ Cardinality(db'.project_monthly_events) =
                          Cardinality(db.project_monthly_events)
                    /\ db'.projects = db.projects
                    /\ \A t \in tables : db'[t] = db[t]
           /\ (ed.pc \in {"project_audit", "event_audit"} /\ ed'.pc = "idle")
                 => /\ db'.projects = db.projects
                    /\ db'.project_monthly_events = db.project_monthly_events
                    /\ \A t \in tables \ {"audit_logs"} : db'[t] = db[t]
                    /\ Len(db'.audit_logs) = Len(db.audit_logs) + 1]_vars

\* P1 is stored in two snapshots with champion 1; an edit has taken the
\* champion from P1 in snapshot 1 and written one audit row: P1 in snapshot 2
\* and the event of P1 in snapshot 1 still have champion 1
C30_Witness ==
    /\ ed.pc = "idle"
    /\ Len(db.audit_logs) = 1
    /\ \E p \in db.projects :
          p.snapshot_id = 1 /\ p.project_id = P1 /\ p.champion_id = NULL
            /\ p.project_name = <<"N">>
    /\ \E p \in db.projects :
          p.snapshot_id = 2 /\ p.project_id = P1 /\ p.champion_id = Some(1)
            /\ p.project_name = <<>>
    /\ \E e \in db.project_monthly_events :
          e.snapshot_id = 1 /\ e.project_id = P1 /\ e.champion_id = Some(1)

====
